---- MODULE Spec2Model ----
(***************************************************************************)
(* A model of the go-di container: the registration store (groups of      *)
(* anonymous and named items per type key), the lifetime cache of each    *)
(* item, the four resolution operations, and the invocation of functions  *)
(* whose parameters are resolved from the container.                      *)
(***************************************************************************)
EXTENDS Integers, Sequences, FiniteSets, TLC

VARIABLES
    groups,          \* container.groups: type key -> containerItemGroup
    defaultOptions,  \* container.defaultOptions, fixed at NewContainer
    calls,           \* how often the resolver of each registration has run
    nextId,          \* identity given to the next containerItem allocated
    call,            \* the operation performed last, with its arguments
    ret,             \* what that operation returned
    threads          \* where each concurrent caller of Resolve stands, and its locals

vars == <<groups, defaultOptions, calls, nextId, call, ret, threads>>

-----------------------------------------------------------------------------
(* Bounds of the exploration. *)

\* registrations performed in one run
MaxRegs == 3
\* invocations of resolvers in one run
MaxCalls == 3

Ids == 1..MaxRegs

\* the callers that may resolve at the same time
Threads == {1, 2}

-----------------------------------------------------------------------------
(* Lifetime, values and errors. *)

LifetimeStatic == 0
LifetimePerRequest == 1

\* the nil interface value
Nil == [k |-> "nil", id |-> 0, n |-> 0]
\* a caller-owned instance handed to the container
Instance(v) == [k |-> "instance", id |-> v, n |-> 0]
\* the object allocated by the n-th run of the resolver of registration id
Object(id, n) == [k |-> "object", id |-> id, n |-> n]

NoError == [k |-> "nil", s |-> "", id |-> 0]
ErrNotExist(key) == [k |-> "ErrNotExist", s |-> key, id |-> 0]
ErrNameNotExist(name) == [k |-> "ErrNameNotExist", s |-> name, id |-> 0]
\* the error returned by the resolver of registration id, or by the function
\* passed to Invoke (id 0)
FactoryError(id) == [k |-> "FactoryError", s |-> "", id |-> id]
\* the fmt.Errorf errors of validateDelegateType and validateDelegateTypeIsConstructor
ValidationError(s) == [k |-> "ValidationError", s |-> s, id |-> 0]
\* a run-time panic of the reflect package, which no code of the package recovers
Panic(s) == [k |-> "panic", s |-> s, id |-> 0]
\* the goroutine stack exceeds its limit: a fatal error of the runtime, which
\* ends the process; the call never returns to its caller
StackOverflow == [k |-> "fatal", s |-> "stack overflow", id |-> 0]
\* no outcome of the call: it nests more runs of one resolver than are followed
Unexplored == [k |-> "unexplored", s |-> "", id |-> 0]
\* the call has come to an execution of a range over a map of several names
\* for which the orders it is given hold no draw
Undrawn == [k |-> "undrawn", s |-> "", id |-> 0]
\* item.resolve has found the resolver of the item registered as id running:
\* what the call does next is settled where the outermost resolver was entered
Reentered(id) == [k |-> "reentered", s |-> "", id |-> id]
\* err is not a value returned: the frames between its origin and the caller
\* that observes it return nothing and execute no further statement
Unwinds(err) == err.k \in {"panic", "fatal", "unexplored", "undrawn", "reentered"}

\* errors.Is(err, target) for the two sentinel errors
IsErr(err, kind) == err.k = kind

-----------------------------------------------------------------------------
(* Go functions, as reflect sees them.  A parameter type is a named type,  *)
(* a slice or array of elem, or a map from key to elem; name is its        *)
(* String().  A function has the parameter types ins, the result types     *)
(* outs, and is variadic or not.  Its body returns as first result a fresh *)
(* non-zero value holding the arguments it was called with ("new"), the    *)
(* zero value of an interface type ("nil") or the zero value of another    *)
(* type ("zero"), and as second result a non-zero value when fails.        *)

Plain(name) == [kind |-> "plain", key |-> "", elem |-> "", name |-> name]
SliceOf(elem, name) == [kind |-> "slice", key |-> "", elem |-> elem, name |-> name]
ArrayOf(elem, name) == [kind |-> "array", key |-> "", elem |-> elem, name |-> name]
MapOf(key, elem, name) == [kind |-> "map", key |-> key, elem |-> elem, name |-> name]

Func(ins, variadic, outs, yields, fails) ==
    [kind |-> "func", ins |-> ins, variadic |-> variadic, outs |-> outs,
     yields |-> yields, fails |-> fails, isNil |-> FALSE]
\* var f func(): the nil value of a function type, which has a type and no
\* body; reflect.Value.Call panics on it
NoFunc == [Func(<<>>, FALSE, <<>>, "nil", FALSE) EXCEPT !.isNil = TRUE]
\* the type of a delegate that is not a function: of kind "int", "struct",
\* "pointer", ..., or "nil" for the nil Type that reflect.TypeOf(nil) returns
NotFunc(kind) == [Func(<<>>, FALSE, <<>>, "nil", FALSE) EXCEPT !.kind = kind]

\* the reflect.Value passed for one parameter: a single value, a slice or a map
Arg(k, v, vs, m) == [k |-> k, v |-> v, vs |-> vs, m |-> m]
One(v) == Arg("value", v, <<>>, <<>>)
Slice(vs) == Arg("slice", Nil, vs, <<>>)
Map(m) == Arg("map", Nil, <<>>, m)

\* the value built by the n-th run of the function of registration id (0: the
\* function passed to Invoke), called with args
Built(id, n, args) == [k |-> "built", id |-> id, n |-> n, args |-> args]
\* reflect.Zero(type).Interface() for a type that is not an interface
Zero == [k |-> "zero", id |-> 0, n |-> 0]
\* an interface value read while it is being written: the type word is set and
\* the data word is still nil
TypedNil == [k |-> "typed nil", id |-> 0, n |-> 0]
\* an error read while it is being written: a non-nil error whose type word is
\* set and whose data word is still nil
TypedNilError == [k |-> "typed nil", s |-> "", id |-> 0]

-----------------------------------------------------------------------------
(* The targets of Inject, as reflect sees them: a pointer to a struct      *)
(* whose fields have a name, a type, an inject tag or none, and are        *)
(* exported (settable) or not; values holds what the fields hold.          *)

StructField(name, type, tagged, exported) ==
    [name |-> name, type |-> type, tagged |-> tagged, exported |-> exported]
PointerTo(fields, values) == [kind |-> "pointer", fields |-> fields, values |-> values]
\* the value field i of a target holds before Inject
Previous(i) == [k |-> "previous", id |-> i, n |-> 0]

-----------------------------------------------------------------------------
(* FuncResolver: what a delegate returns when it is run.  yields is        *)
(* "given" (a fixed value, as the closure of RegisterInstance), "new" (a   *)
(* fresh object on every run), "nil", or "invoke" (the closure of          *)
(* RegisterConstructor, which invokes constructor); fails says whether the *)
(* error returned is non-nil.  A delegate that is not such a closure       *)
(* captures no constructor: its constructor is the nil func, never called. *)

FuncResolver(yields, given, fails) ==
    [yields |-> yields, given |-> given, fails |-> fails, constructor |-> NoFunc]

\* func(r Resolver) (any, error) { return Invoke(r, constructor) }
InvokeResolver(constructor) ==
    [FuncResolver("invoke", Nil, FALSE) EXCEPT !.constructor = constructor]

-----------------------------------------------------------------------------
(* Registration options. *)

withLifetime(lifetime) == [set |-> "lifetime", lifetime |-> lifetime, name |-> ""]
WithLifetime(lifetime) == withLifetime(lifetime)
WithDefaultLifetime(lifetime) == withLifetime(lifetime)
WithName(name) == [set |-> "name", lifetime |-> 0, name |-> name]

\* option(o)
applyOption(o, option) ==
    IF option.set = "lifetime"
    THEN [o EXCEPT !.lifetime = option.lifetime]
    ELSE [o EXCEPT !.name = option.name]

\* for _, option := range options { option(o) }
RECURSIVE applyOptions(_, _)
applyOptions(o, options) ==
    IF options = <<>> THEN o
    ELSE applyOptions(applyOption(o, Head(options)), Tail(options))

\* &registrationOption{key: key, resolver: delegate}: the other fields are zero
registrationOption(key, delegate) ==
    [name |-> "", key |-> key, resolver |-> delegate, lifetime |-> 0]

\* &containerItem{option: o}
\* busy is 0 unless a call of i.option.resolver for this item is on the stack:
\* it is then 1, or 3 when two such calls are, or 2 when the question is
\* whether such a call can return
containerItem(id, o) ==
    [id |-> id, data |-> Nil, err |-> NoError, option |-> o, busy |-> 0]

\* &containerItemGroup{items: []*containerItem{}, namedItems: map[string]*containerItem{}}
containerItemGroup == [items |-> <<>>, namedItems |-> <<>>]

\* m[k] = v on a map
MapPut(m, k, v) == [x \in DOMAIN m \cup {k} |-> IF x = k THEN v ELSE m[x]]
\* delete(m, k)
MapDelete(m, k) == [x \in DOMAIN m \ {k} |-> m[x]]

-----------------------------------------------------------------------------
(* The registration store. *)

\* t.String(): a named type is written with the name of its package and not
\* with the import path, so that the types X of the packages a/pkg and b/pkg
\* have the same key; the other types of the model are written as their String()
typeKey(t) == IF t \in {"a/pkg.X", "b/pkg.X"} THEN "pkg.X" ELSE t

\* RegisterDynamic applying the default options after the options of the call
RegisterDynamic_defaultsLast(gs, defaults, id, t, delegate, options) ==
    LET key   == typeKey(t)
        o     == applyOptions(applyOptions(registrationOption(key, delegate), options),
                              defaults)
        gs1   == IF key \in DOMAIN gs THEN gs ELSE MapPut(gs, key, containerItemGroup)
        group == gs1[key]
        item  == containerItem(id, o)
    IN  IF o.name = ""
        THEN [gs1 EXCEPT ![key].items = Append(group.items, item)]
        ELSE [gs1 EXCEPT ![key].namedItems = MapPut(group.namedItems, o.name, item)]

\* RegisterDynamic storing every item by its name, the empty name too
RegisterDynamic_emptyNameKept(gs, defaults, id, t, delegate, options) ==
    LET key   == typeKey(t)
        o     == applyOptions(applyOptions(registrationOption(key, delegate), defaults),
                              options)
        gs1   == IF key \in DOMAIN gs THEN gs ELSE MapPut(gs, key, containerItemGroup)
        group == gs1[key]
        item  == containerItem(id, o)
    IN  [gs1 EXCEPT ![key].namedItems = MapPut(group.namedItems, o.name, item)]

\* RegisterDynamic keeping the item a name already has
RegisterDynamic_firstNameWins(gs, defaults, id, t, delegate, options) ==
    LET key   == typeKey(t)
        o     == applyOptions(applyOptions(registrationOption(key, delegate), defaults),
                              options)
        gs1   == IF key \in DOMAIN gs THEN gs ELSE MapPut(gs, key, containerItemGroup)
        group == gs1[key]
        item  == containerItem(id, o)
    IN  IF o.name = ""
        THEN [gs1 EXCEPT ![key].items = Append(group.items, item)]
        ELSE IF o.name \in DOMAIN group.namedItems THEN gs1
        ELSE [gs1 EXCEPT ![key].namedItems = MapPut(group.namedItems, o.name, item)]

\* RegisterDynamic handing the memoized results of the item a name had to the
\* item that takes its place
RegisterDynamic_inheritsCache(gs, defaults, id, t, delegate, options) ==
    LET key   == typeKey(t)
        o     == applyOptions(applyOptions(registrationOption(key, delegate), defaults),
                              options)
        gs1   == IF key \in DOMAIN gs THEN gs ELSE MapPut(gs, key, containerItemGroup)
        group == gs1[key]
        item  == containerItem(id, o)
    IN  IF o.name = ""
        THEN [gs1 EXCEPT ![key].items = Append(group.items, item)]
        ELSE IF o.name \in DOMAIN group.namedItems
        THEN [gs1 EXCEPT ![key].namedItems =
                MapPut(group.namedItems, o.name,
                       [item EXCEPT !.data = group.namedItems[o.name].data,
                                    !.err = group.namedItems[o.name].err])]
        ELSE [gs1 EXCEPT ![key].namedItems = MapPut(group.namedItems, o.name, item)]

RegisterDynamic(gs, defaults, id, t, delegate, options) ==
    LET key   == typeKey(t)
        o     == applyOptions(applyOptions(registrationOption(key, delegate), defaults),
                              options)
        gs1   == IF key \in DOMAIN gs THEN gs ELSE MapPut(gs, key, containerItemGroup)
        group == gs1[key]
        item  == containerItem(id, o)
    IN  IF o.name = ""
        THEN [gs1 EXCEPT ![key].items = Append(group.items, item)]
        ELSE [gs1 EXCEPT ![key].namedItems = MapPut(group.namedItems, o.name, item)]

RegisterInstance(gs, defaults, id, t, instance, options) ==
    RegisterDynamic(gs, defaults, id, t, FuncResolver("given", instance, FALSE), options)

\* RemoveAll emptying the group instead of deleting it
RemoveAll_keepsGroup(gs, t) ==
    IF typeKey(t) \in DOMAIN gs THEN [gs EXCEPT ![typeKey(t)] = containerItemGroup] ELSE gs

\* RemoveAll deleting the groups of all types
RemoveAll_everyGroup(gs, t) == <<>>

\* RemoveAll deleting the anonymous items of the group and keeping the group
RemoveAll_onlyAnonymous(gs, t) ==
    IF typeKey(t) \in DOMAIN gs THEN [gs EXCEPT ![typeKey(t)].items = <<>>] ELSE gs

RemoveAll(gs, t) == MapDelete(gs, typeKey(t))

\* ReplaceDynamic registering next to the items the type already holds
ReplaceDynamic_keepsItems(gs, defaults, id, t, delegate, options) ==
    RegisterDynamic(gs, defaults, id, t, delegate, options)

ReplaceDynamic(gs, defaults, id, t, delegate, options) ==
    RegisterDynamic(RemoveAll(gs, t), defaults, id, t, delegate, options)

ReplaceInstance(gs, defaults, id, t, instance, options) ==
    RegisterInstance(RemoveAll(gs, t), defaults, id, t, instance, options)

-----------------------------------------------------------------------------
(* The resolution engine.  Every operation returns the container's groups  *)
(* and the call counts as it leaves them, next to its Go results.  Every   *)
(* execution of a range statement over namedItems visits the names in an   *)
(* order of its own: orders is the sequence of the orders the call draws,  *)
(* orders[k][key] being the order of the k-th range should it be over the  *)
(* group of key, and cs[Ranges] counts the orders the call has drawn.      *)
(* A range over fewer than two names has one order and draws none.         *)

\* the index of cs that counts the orders drawn by the call in progress
Ranges == -1
\* the index of cs that tells whether the next call of item.resolve that finds
\* its resolver running is followed into the run below (1), and whether one
\* has been (2), under the outermost resolver running
Nested == -2

\* the items of the groups gs
Items(gs) ==
    UNION {{gs[key].items[i] : i \in DOMAIN gs[key].items} \cup
           {gs[key].namedItems[name] : name \in DOMAIN gs[key].namedItems} :
           key \in DOMAIN gs}

\* the number of parameters of the constructors registered in items
RECURSIVE parametersOf(_)
parametersOf(items) ==
    IF items = {} THEN 0
    ELSE LET item == CHOOSE i \in items : TRUE
             more(n) == Len(item.option.resolver.constructor.ins) + n
         IN  more(parametersOf(items \ {item}))

\* the most parameters a constructor registered in items has
RECURSIVE numIn(_)
numIn(items) ==
    IF items = {} THEN 0
    ELSE LET item == CHOOSE i \in items : TRUE
             ins == Len(item.option.resolver.constructor.ins)
             most(n) == IF ins > n THEN ins ELSE n
         IN  most(numIn(items \ {item}))

\* the orders in which a range over the map m may visit its keys
Orders(m) ==
    {o \in [1..Cardinality(DOMAIN m) -> DOMAIN m] :
        \A i, j \in DOMAIN o : o[i] = o[j] => i = j}
\* whether a range over the namedItems of some group of gs has an order to draw
draws(gs) == \E key \in DOMAIN gs : Cardinality(DOMAIN gs[key].namedItems) >= 2
\* what one execution of a range statement may draw: for each group of gs, the
\* order in which it visits the namedItems if it is over that group
Draws(gs) ==
    LET all == UNION {Orders(gs[key].namedItems) : key \in DOMAIN gs} IN
    {order \in [DOMAIN gs -> all] :
        \A key \in DOMAIN gs : order[key] \in Orders(gs[key].namedItems)}
\* the executions of a range a call on gs may come to that executes n range
\* statements itself.  Every run of a constructor executes one more for each
\* of its parameters.  Of the runs of a call at most MaxCalls return; of those
\* that have not returned when the call fails there is at most one of each
\* constructor registered, and one more below the run of its own resolver.
ranges(gs, n) == n + (MaxCalls + 1) * numIn(Items(gs)) + parametersOf(Items(gs))
\* the orders a call on gs may draw that executes n range statements itself:
\* one draw for each execution of a range, independent of the others.  A range
\* over fewer than two names has one order: where no group has two names
\* nothing is drawn.
OrdersFor(gs, n) ==
    IF draws(gs) THEN [1..ranges(gs, n) -> Draws(gs)] ELSE {<<>>}
\* a call draws an order of OrdersFor(gs, n) when it comes to the next
\* execution of a range, and none after the last: whether r is what it does
\* when it has drawn orders, and draws no more
drawn(gs, n, r, orders) == r.err # Undrawn \/ Len(orders) >= ranges(gs, n)
\* the orders a call of Resolve, ResolveByName, ResolveAll or ResolveMap may draw
OrdersOf(gs) == OrdersFor(gs, 1)

\* for _, item := range group.namedItems, for the group of key: the order in
\* which this execution of the statement visits the names
ranged(gs, cs, key, orders) ==
    LET names == DOMAIN gs[key].namedItems
        k     == cs[Ranges] + 1
    IN  IF Cardinality(names) < 2
        THEN [calls |-> cs, err |-> NoError,
              order |-> [i \in 1..Cardinality(names) |-> CHOOSE name \in names : TRUE]]
        ELSE IF k > Len(orders)
        THEN [calls |-> cs, order |-> <<>>, err |-> Undrawn]
        ELSE [calls |-> [cs EXCEPT ![Ranges] = k], err |-> NoError,
              order |-> orders[k][key]]

RECURSIVE resolve(_, _, _, _)
RECURSIVE Resolve(_, _, _, _)
RECURSIVE ResolveAll(_, _, _, _)
RECURSIVE ResolveMap(_, _, _, _)
RECURSIVE Invoke(_, _, _, _, _)

\* i.option.resolver(r), run for the registration id
runResolver(delegate, id, gs, cs, orders) ==
    IF delegate.yields = "invoke"
    THEN Invoke(gs, cs, delegate.constructor, id, orders)
    ELSE LET n == cs[id] + 1 IN
         [groups |-> gs,
          calls  |-> [cs EXCEPT ![id] = n],
          data   |-> CASE delegate.yields = "given" -> delegate.given
                       [] delegate.yields = "new"   -> Object(id, n)
                       [] OTHER                     -> Nil,
          err    |-> IF delegate.fails THEN FactoryError(id) ELSE NoError]

\* the end of resolve when the resolver has run with result r: (data, err) is
\* stored in an item of the given lifetime and returned; a panic unwinds
\* resolve before it stores anything
\* the end of resolve storing (data, err) whatever the lifetime of the item
ran_storesAlways(item, r, lifetime) ==
    [item   |-> IF ~Unwinds(r.err)
                THEN [item EXCEPT !.data = r.data, !.err = r.err]
                ELSE item,
     groups |-> r.groups, calls |-> r.calls, data |-> r.data, err |-> r.err]

ran(item, r, lifetime) ==
    [item   |-> IF item.option.lifetime = lifetime /\ ~Unwinds(r.err)
                THEN [item EXCEPT !.data = r.data, !.err = r.err]
                ELSE item,
     groups |-> r.groups, calls |-> r.calls, data |-> r.data, err |-> r.err]

\* resolve caching for the other lifetime
resolve_cachesPerRequest(item, gs, cs, orders) ==
    IF item.err # NoError
    THEN [item |-> item, groups |-> gs, calls |-> cs, data |-> Nil, err |-> item.err]
    ELSE IF item.data # Nil
    THEN [item |-> item, groups |-> gs, calls |-> cs, data |-> item.data, err |-> NoError]
    ELSE ran(item, runResolver(item.option.resolver, item.id, gs, cs, orders),
             LifetimePerRequest)

\* resolve caching whatever the lifetime
resolve_cachesAlways(item, gs, cs, orders) ==
    IF item.err # NoError
    THEN [item |-> item, groups |-> gs, calls |-> cs, data |-> Nil, err |-> item.err]
    ELSE IF item.data # Nil
    THEN [item |-> item, groups |-> gs, calls |-> cs, data |-> item.data, err |-> NoError]
    ELSE ran(item, runResolver(item.option.resolver, item.id, gs, cs, orders),
             item.option.lifetime)

\* resolve caching the data of a Static item and not its error
resolve_forgetsError(item, gs, cs, orders) ==
    IF item.err # NoError
    THEN [item |-> item, groups |-> gs, calls |-> cs, data |-> Nil, err |-> item.err]
    ELSE IF item.data # Nil
    THEN [item |-> item, groups |-> gs, calls |-> cs, data |-> item.data, err |-> NoError]
    ELSE LET erased(r) == [ran(item, [r EXCEPT !.err = NoError], LifetimeStatic)
                               EXCEPT !.err = r.err]
         IN  erased(runResolver(item.option.resolver, item.id, gs, cs, orders))

\* resolve returning no data for an item whose data is cached
resolve_cachedDataLost(item, gs, cs, orders) ==
    IF item.err # NoError \/ item.data # Nil
    THEN [item |-> item, groups |-> gs, calls |-> cs, data |-> Nil, err |-> item.err]
    ELSE ran(item, runResolver(item.option.resolver, item.id, gs, cs, orders),
             LifetimeStatic)

\* containerItem.resolve: the item as the call leaves it, the groups as the
\* resolver leaves them, and (data, err)
resolve(item, gs, cs, orders) ==
    IF item.err # NoError
    THEN [item |-> item, groups |-> gs, calls |-> cs, data |-> Nil, err |-> item.err]
    ELSE IF item.data # Nil
    THEN [item |-> item, groups |-> gs, calls |-> cs, data |-> item.data, err |-> NoError]
    ELSE ran(item, runResolver(item.option.resolver, item.id, gs, cs, orders),
             LifetimeStatic)

\* container.group
group(gs, t) ==
    LET key == typeKey(t) IN
    IF key \in DOMAIN gs
    THEN [group |-> gs[key], err |-> NoError]
    ELSE [group |-> containerItemGroup, err |-> ErrNotExist(key)]

\* the place of an item in its group: a name of namedItems or an index of items
Named(name) == [name |-> name, index |-> 0]
Indexed(index) == [name |-> "", index |-> index]
itemAt(g, place) ==
    IF place.index = 0 THEN g.namedItems[place.name] ELSE g.items[place.index]
\* the write through the *containerItem pointer held at that place
storeItem(gs, key, place, item) ==
    IF place.index = 0
    THEN [gs EXCEPT ![key].namedItems[place.name] = item]
    ELSE [gs EXCEPT ![key].items[place.index] = item]

\* the groups gs with no resolver running
unwound(gs) ==
    [key \in DOMAIN gs |->
        [items      |-> [i \in DOMAIN gs[key].items |->
                            [gs[key].items[i] EXCEPT !.busy = 0]],
         namedItems |-> [name \in DOMAIN gs[key].namedItems |->
                            [gs[key].namedItems[name] EXCEPT !.busy = 0]]]]

\* the place of the item registered as id
placeOf(gs, id) ==
    CHOOSE p \in UNION {{[key |-> key, place |-> Indexed(i)] : i \in DOMAIN gs[key].items} \cup
                        {[key |-> key, place |-> Named(name)] :
                            name \in DOMAIN gs[key].namedItems} : key \in DOMAIN gs} :
        itemAt(gs[p.key], p.place).id = id

\* whether item.resolve can return on gs when its ranges have drawn orders
\* so far, under some orders they draw from there
RECURSIVE returned(_, _, _, _)
returned(gs, cs, item, orders) ==
    LET next(r) ==
            IF drawn(gs, 0, r, orders)
            THEN r.err # StackOverflow
            ELSE \E draw \in Draws(gs) : returned(gs, cs, item, Append(orders, draw))
    IN  next(resolve(item, gs, cs, orders))

\* whether a run of the resolver of the item registered as id can return
\* without a call of item.resolve that finds the resolver of its item running,
\* under some orders drawn by its ranges.  Where no range has an order to draw,
\* the run that has come back to its item is the only one there is.
returns(gs, cs, id) ==
    LET p == placeOf(gs, id)
        item == itemAt(gs[p.key], p.place)
        alone == storeItem(unwound(gs), p.key, p.place, [item EXCEPT !.busy = 2])
    IN  /\ draws(gs)
        /\ returned(alone, [cs EXCEPT ![Ranges] = 0, ![Nested] = 0],
                    [item EXCEPT !.busy = 0], <<>>)

\* what a call does whose outermost resolver has been left by r: when r has
\* come to an item whose resolver is running, the stack is exhausted if no run
\* of that resolver can return; else the call, with the orders it draws, is
\* the one that follows the run below, which is again
settled(r, again) ==
    LET ends(o, err) == [groups |-> o.groups, calls |-> o.calls, data |-> Nil, err |-> err]
    IN  IF r.err.k # "reentered" THEN r
        ELSE IF ~returns(r.groups, r.calls, r.err.id) THEN ends(r, StackOverflow)
        ELSE IF again.err.k # "reentered" THEN again
        ELSE IF ~returns(again.groups, again.calls, again.err.id)
        THEN ends(again, StackOverflow)
        ELSE ends(again, Unexplored)

\* item.resolve(c) for the item at one place of the group of key.  The call
\* tests the results memoized before anything else: an item that holds them
\* returns them, also while its resolver runs.  A call that holds none and
\* finds the resolver of the item running runs it again, below its own run.
\* A run that returns stores over what a run below it has stored; one that
\* unwinds leaves that in place.
\* What a run does depends on nothing but the orders its ranges draw and the
\* results memoized, and nothing is stored in an item before its resolver
\* returns.  When under every order the run comes back to an item whose
\* resolver it is running, so does the run below it, and the one below that,
\* without end, until the stack is exhausted.  When under some order it
\* returns, the run below returns as soon as it draws such an order; one run
\* below the run of a resolver is followed, and none below or after that.
resolveAt(gs, cs, key, place, orders) ==
    LET item == itemAt(gs[key], place)
        entered(mark) == storeItem(gs, key, place, [item EXCEPT !.busy = mark])
        stored(r) ==
            LET kept == itemAt(r.groups[key], place)
                left == IF Unwinds(r.err) THEN kept ELSE r.item
            IN  [groups |-> storeItem(r.groups, key, place, [left EXCEPT !.busy = item.busy]),
                 calls |-> r.calls, data |-> r.data, err |-> r.err]
        run(counts) == stored(resolve(item, entered(1), counts, orders))
    IN  IF item.err # NoError \/ item.data # Nil
        THEN stored(resolve(item, gs, cs, orders))
        ELSE IF item.busy = 0
        THEN IF \E other \in Items(gs) : other.busy # 0
             THEN run(cs)
             ELSE settled(run([cs EXCEPT ![Nested] = 0]), run([cs EXCEPT ![Nested] = 1]))
        ELSE IF \E other \in Items(gs) : other.busy = 2
        THEN [groups |-> gs, calls |-> cs, data |-> Nil, err |-> StackOverflow]
        ELSE IF \E other \in Items(gs) : other.busy = 3
        THEN [groups |-> gs, calls |-> cs, data |-> Nil, err |-> Unexplored]
        ELSE IF cs[Nested] # 1
        THEN [groups |-> gs, calls |-> cs, data |-> Nil, err |-> Reentered(item.id)]
        ELSE stored(resolve([item EXCEPT !.busy = 0], entered(3),
                            [cs EXCEPT ![Nested] = 2], orders))

\* the (data, err) result of a call that stopped with err
Failed(gs, cs, err) == [groups |-> gs, calls |-> cs, data |-> Nil, err |-> err]

\* Resolve taking the first anonymous item instead of the last
Resolve_firstItem(gs, cs, t, orders) ==
    LET g == group(gs, t) IN
    IF g.err # NoError THEN Failed(gs, cs, g.err)
    ELSE IF Len(g.group.items) > 0
    THEN resolveAt(gs, cs, typeKey(t), Indexed(1), orders)
    ELSE IF Cardinality(DOMAIN g.group.namedItems) > 0
    THEN LET range == ranged(gs, cs, typeKey(t), orders) IN
         IF range.err # NoError THEN Failed(gs, cs, range.err)
         ELSE resolveAt(gs, range.calls, typeKey(t), Named(Head(range.order)), orders)
    ELSE Failed(gs, cs, ErrNotExist(typeKey(t)))

\* Resolve resolving, without anonymous items, the named item visited first and
\* then the one visited last, and returning the result of the latter
Resolve_runsOtherNames(gs, cs, t, orders) ==
    LET g == group(gs, t) IN
    IF g.err # NoError THEN Failed(gs, cs, g.err)
    ELSE IF Len(g.group.items) > 0
    THEN resolveAt(gs, cs, typeKey(t), Indexed(Len(g.group.items)), orders)
    ELSE IF Cardinality(DOMAIN g.group.namedItems) > 0
    THEN LET range == ranged(gs, cs, typeKey(t), orders)
             order == range.order
             then(r) == resolveAt(r.groups, r.calls, typeKey(t),
                                  Named(order[Len(order)]), orders)
         IN  IF range.err # NoError THEN Failed(gs, cs, range.err)
             ELSE then(resolveAt(gs, range.calls, typeKey(t), Named(Head(order)), orders))
    ELSE Failed(gs, cs, ErrNotExist(typeKey(t)))

Resolve(gs, cs, t, orders) ==
    LET g == group(gs, t) IN
    IF g.err # NoError THEN Failed(gs, cs, g.err)
    ELSE IF Len(g.group.items) > 0
    THEN resolveAt(gs, cs, typeKey(t), Indexed(Len(g.group.items)), orders)
    ELSE IF Cardinality(DOMAIN g.group.namedItems) > 0
    THEN LET range == ranged(gs, cs, typeKey(t), orders) IN
         IF range.err # NoError THEN Failed(gs, cs, range.err)
         ELSE resolveAt(gs, range.calls, typeKey(t), Named(Head(range.order)), orders)
    ELSE Failed(gs, cs, ErrNotExist(typeKey(t)))

\* ResolveByName falling back to Resolve when the name is not registered
ResolveByName_fallsBack(gs, cs, t, name, orders) ==
    LET g == group(gs, t) IN
    IF g.err # NoError THEN Failed(gs, cs, g.err)
    ELSE IF name \notin DOMAIN g.group.namedItems
    THEN Resolve(gs, cs, t, orders)
    ELSE resolveAt(gs, cs, typeKey(t), Named(name), orders)

ResolveByName(gs, cs, t, name, orders) ==
    LET g == group(gs, t) IN
    IF g.err # NoError THEN Failed(gs, cs, g.err)
    ELSE IF name \notin DOMAIN g.group.namedItems
    THEN Failed(gs, cs, ErrNameNotExist(name))
    ELSE resolveAt(gs, cs, typeKey(t), Named(name), orders)

\* the two loops of ResolveAll and the loop of ResolveMap: resolve the items at
\* places in turn, collecting the data; the first error ends the call with nil
\* the loops returning, next to the first error, the data collected before it
RECURSIVE resolveEach_keepsPartial(_, _, _, _, _, _)
resolveEach_keepsPartial(gs, cs, key, places, all, orders) ==
    IF places = <<>>
    THEN [groups |-> gs, calls |-> cs, all |-> all, err |-> NoError]
    ELSE LET next(r) ==
                 IF r.err # NoError
                 THEN [groups |-> r.groups, calls |-> r.calls, all |-> all, err |-> r.err]
                 ELSE resolveEach_keepsPartial(r.groups, r.calls, key, Tail(places),
                                               Append(all, r.data), orders)
         IN  next(resolveAt(gs, cs, key, Head(places), orders))

\* the loops resolving the items that come after the first failing one before
\* they return its error
RECURSIVE resolveEach_runsRest(_, _, _, _, _, _)
resolveEach_runsRest(gs, cs, key, places, all, orders) ==
    IF places = <<>>
    THEN [groups |-> gs, calls |-> cs, all |-> all, err |-> NoError]
    ELSE LET rest(r, err) == [groups |-> r.groups, calls |-> r.calls, all |-> <<>>,
                              err |-> err]
             next(r) ==
                 IF r.err # NoError
                 THEN rest(resolveEach_runsRest(r.groups, r.calls, key, Tail(places),
                                                <<>>, orders), r.err)
                 ELSE resolveEach_runsRest(r.groups, r.calls, key, Tail(places),
                                           Append(all, r.data), orders)
         IN  next(resolveAt(gs, cs, key, Head(places), orders))

RECURSIVE resolveEach(_, _, _, _, _, _)
resolveEach(gs, cs, key, places, all, orders) ==
    IF places = <<>>
    THEN [groups |-> gs, calls |-> cs, all |-> all, err |-> NoError]
    ELSE LET next(r) ==
                 IF r.err # NoError
                 THEN [groups |-> r.groups, calls |-> r.calls, all |-> <<>>, err |-> r.err]
                 ELSE resolveEach(r.groups, r.calls, key, Tail(places),
                                  Append(all, r.data), orders)
         IN  next(resolveAt(gs, cs, key, Head(places), orders))

namedPlaces(order) == [i \in 1..Len(order) |-> Named(order[i])]
itemPlaces(g) == [i \in 1..Len(g.items) |-> Indexed(i)]

\* ResolveAll collecting the anonymous items before the named ones
ResolveAll_anonymousFirst(gs, cs, t, orders) ==
    LET g == group(gs, t) IN
    IF g.err # NoError
    THEN [groups |-> gs, calls |-> cs, all |-> <<>>, err |-> g.err]
    ELSE LET range == ranged(gs, cs, typeKey(t), orders) IN
         IF range.err # NoError
         THEN [groups |-> gs, calls |-> cs, all |-> <<>>, err |-> range.err]
         ELSE resolveEach(gs, range.calls, typeKey(t),
                          itemPlaces(g.group) \o namedPlaces(range.order), <<>>, orders)

ResolveAll(gs, cs, t, orders) ==
    LET g == group(gs, t) IN
    IF g.err # NoError
    THEN [groups |-> gs, calls |-> cs, all |-> <<>>, err |-> g.err]
    ELSE LET range == ranged(gs, cs, typeKey(t), orders) IN
         IF range.err # NoError
         THEN [groups |-> gs, calls |-> cs, all |-> <<>>, err |-> range.err]
         ELSE resolveEach(gs, range.calls, typeKey(t),
                          namedPlaces(range.order) \o itemPlaces(g.group), <<>>, orders)

\* ResolveMap storing under every name the value of the item visited last
ResolveMap_lastValue(gs, cs, t, orders) ==
    LET g == group(gs, t) IN
    IF g.err # NoError
    THEN [groups |-> gs, calls |-> cs, m |-> <<>>, err |-> g.err]
    ELSE LET range == ranged(gs, cs, typeKey(t), orders)
             order == range.order
             mapped(r) ==
                 [groups |-> r.groups, calls |-> r.calls, err |-> r.err,
                  m |-> IF r.err # NoError THEN <<>>
                        ELSE [name \in DOMAIN g.group.namedItems |-> r.all[Len(r.all)]]]
         IN  IF range.err # NoError
             THEN [groups |-> gs, calls |-> cs, m |-> <<>>, err |-> range.err]
             ELSE mapped(resolveEach(gs, range.calls, typeKey(t), namedPlaces(order),
                                     <<>>, orders))

ResolveMap(gs, cs, t, orders) ==
    LET g == group(gs, t) IN
    IF g.err # NoError
    THEN [groups |-> gs, calls |-> cs, m |-> <<>>, err |-> g.err]
    ELSE LET range == ranged(gs, cs, typeKey(t), orders)
             order == range.order
             mapped(r) ==
                 [groups |-> r.groups, calls |-> r.calls, err |-> r.err,
                  m |-> IF r.err # NoError THEN <<>>
                        ELSE [name \in DOMAIN g.group.namedItems |->
                                r.all[CHOOSE i \in 1..Len(order) : order[i] = name]]]
         IN  IF range.err # NoError
             THEN [groups |-> gs, calls |-> cs, m |-> <<>>, err |-> range.err]
             ELSE mapped(resolveEach(gs, range.calls, typeKey(t), namedPlaces(order),
                                     <<>>, orders))

-----------------------------------------------------------------------------
(* Invoke: the parameters of a function are resolved from the container,   *)
(* in declaration order, and the function is called with them.  Values are *)
(* untyped here: a registered value is taken to be assignable to the type  *)
(* it is registered under.                                                 *)

\* the results of resolveParameters, resolveSlice and resolveMap
Bound(gs, cs, values, err) == [groups |-> gs, calls |-> cs, values |-> values, err |-> err]

\* validateDelegateType: t.Elem() panics for the kinds that have no element
\* type, and t.Kind() for the nil Type of a nil delegate
validateDelegateType(t) ==
    IF t.kind = "func" THEN NoError
    ELSE IF t.kind \in {"array", "chan", "map", "pointer", "slice"}
    THEN ValidationError("must be a method")
    ELSE Panic("reflect")

\* errorType.Implements(error)
ImplementsError(name) == name = "error"

\* validateDelegateTypeIsConstructor accepting any type as second result
validateDelegateTypeIsConstructor_anySecond(t) ==
    LET err == validateDelegateType(t)
        outCount == Len(t.outs)
    IN  IF err # NoError THEN err
        ELSE IF outCount = 0 \/ outCount > 2
        THEN ValidationError("function must have a return value and optional error")
        ELSE NoError

validateDelegateTypeIsConstructor(t) ==
    LET err == validateDelegateType(t)
        outCount == Len(t.outs)
    IN  IF err # NoError THEN err
        ELSE IF outCount = 0
        THEN ValidationError("function must have a return value and optional error")
        ELSE IF outCount = 2
        THEN IF ~ImplementsError(t.outs[2])
             THEN ValidationError("the second must implement error")
             ELSE NoError
        ELSE IF outCount # 1
        THEN ValidationError("function must have a return value and optional error")
        ELSE NoError

\* resolveSlice: reflect.MakeSlice panics for an array type, and Set for the
\* invalid reflect.Value of a nil element
resolveSlice(gs, cs, t, orders) ==
    LET slice(r) ==
            IF r.err # NoError THEN Bound(r.groups, r.calls, <<>>, r.err)
            ELSE IF t.kind # "slice"
            THEN Bound(r.groups, r.calls, <<>>, Panic("reflect.MakeSlice"))
            ELSE IF \E i \in DOMAIN r.all : r.all[i] = Nil
            THEN Bound(r.groups, r.calls, <<>>, Panic("reflect.Value.Set"))
            ELSE Bound(r.groups, r.calls, <<Slice(r.all)>>, NoError)
    IN  slice(ResolveAll(gs, cs, t.elem, orders))

\* resolveMap: SetMapIndex with the invalid reflect.Value of a nil element
\* deletes the key
resolveMap(gs, cs, t, orders) ==
    LET mapValue(r) ==
            IF r.err # NoError THEN Bound(r.groups, r.calls, <<>>, r.err)
            ELSE Bound(r.groups, r.calls,
                       <<Map([k \in {name \in DOMAIN r.m : r.m[name] # Nil} |-> r.m[k]])>>,
                       NoError)
    IN  mapValue(ResolveMap(gs, cs, t, orders))

\* resolveParameter spreading every slice parameter, variadic or not
resolveParameter_spreadsSlices(gs, cs, t, i, orders) ==
    LET parameterType == t.ins[i]
        spread(r) ==
            IF r.err # NoError THEN Bound(r.groups, r.calls, <<>>, r.err)
            ELSE Bound(r.groups, r.calls, [j \in 1..Len(r.all) |-> One(r.all[j])], NoError)
        single(r) ==
            IF r.err # NoError THEN Bound(r.groups, r.calls, <<>>, r.err)
            ELSE Bound(r.groups, r.calls, <<One(r.data)>>, NoError)
    IN  IF parameterType.kind \in {"array", "slice"}
        THEN spread(ResolveAll(gs, cs, parameterType.elem, orders))
        ELSE IF parameterType.kind = "map" /\ parameterType.key = "string"
        THEN resolveMap(gs, cs, parameterType.elem, orders)
        ELSE single(Resolve(gs, cs, parameterType.name, orders))

\* resolveParameter passing the variadic parameter as one slice
resolveParameter_neverSpreads(gs, cs, t, i, orders) ==
    LET parameterType == t.ins[i]
        single(r) ==
            IF r.err # NoError THEN Bound(r.groups, r.calls, <<>>, r.err)
            ELSE Bound(r.groups, r.calls, <<One(r.data)>>, NoError)
    IN  IF parameterType.kind \in {"array", "slice"}
        THEN resolveSlice(gs, cs, parameterType, orders)
        ELSE IF parameterType.kind = "map" /\ parameterType.key = "string"
        THEN resolveMap(gs, cs, parameterType.elem, orders)
        ELSE single(Resolve(gs, cs, parameterType.name, orders))

\* the body of the loop of resolveParameters for parameter i: the values it appends
\* resolveParameter resolving, for a plain parameter, the type the function
\* returns
resolveParameter_resolvesResult(gs, cs, t, i, orders) ==
    LET parameterType == t.ins[i]
        spread(r) ==
            IF r.err # NoError THEN Bound(r.groups, r.calls, <<>>, r.err)
            ELSE Bound(r.groups, r.calls, [j \in 1..Len(r.all) |-> One(r.all[j])], NoError)
        single(r) ==
            IF r.err # NoError THEN Bound(r.groups, r.calls, <<>>, r.err)
            ELSE Bound(r.groups, r.calls, <<One(r.data)>>, NoError)
    IN  IF parameterType.kind \in {"array", "slice"}
        THEN IF t.variadic /\ i = Len(t.ins)
             THEN spread(ResolveAll(gs, cs, parameterType.elem, orders))
             ELSE resolveSlice(gs, cs, parameterType, orders)
        ELSE IF parameterType.kind = "map" /\ parameterType.key = "string"
        THEN resolveMap(gs, cs, parameterType.elem, orders)
        ELSE single(Resolve(gs, cs, t.outs[1], orders))

resolveParameter(gs, cs, t, i, orders) ==
    LET parameterType == t.ins[i]
        spread(r) ==
            IF r.err # NoError THEN Bound(r.groups, r.calls, <<>>, r.err)
            ELSE Bound(r.groups, r.calls, [j \in 1..Len(r.all) |-> One(r.all[j])], NoError)
        single(r) ==
            IF r.err # NoError THEN Bound(r.groups, r.calls, <<>>, r.err)
            ELSE Bound(r.groups, r.calls, <<One(r.data)>>, NoError)
    IN  IF parameterType.kind \in {"array", "slice"}
        THEN IF t.variadic /\ i = Len(t.ins)
             THEN spread(ResolveAll(gs, cs, parameterType.elem, orders))
             ELSE resolveSlice(gs, cs, parameterType, orders)
        ELSE IF parameterType.kind = "map" /\ parameterType.key = "string"
        THEN resolveMap(gs, cs, parameterType.elem, orders)
        ELSE single(Resolve(gs, cs, parameterType.name, orders))

\* resolveParameters going on to the next parameter after a failed one
RECURSIVE resolveParameters_continues(_, _, _, _, _, _)
resolveParameters_continues(gs, cs, t, i, values, orders) ==
    IF i > Len(t.ins) THEN Bound(gs, cs, values, NoError)
    ELSE LET next(r) ==
                 resolveParameters_continues(r.groups, r.calls, t, i + 1,
                                             values \o r.values, orders)
         IN  next(resolveParameter(gs, cs, t, i, orders))

\* resolveParameters putting the values of a parameter before those of the earlier ones
RECURSIVE resolveParameters_prepends(_, _, _, _, _, _)
resolveParameters_prepends(gs, cs, t, i, values, orders) ==
    IF i > Len(t.ins) THEN Bound(gs, cs, values, NoError)
    ELSE LET next(r) ==
                 IF r.err # NoError THEN Bound(r.groups, r.calls, <<>>, r.err)
                 ELSE resolveParameters_prepends(r.groups, r.calls, t, i + 1,
                                                 r.values \o values, orders)
         IN  next(resolveParameter(gs, cs, t, i, orders))

\* resolveParameters, from parameter i on, values holding the values appended so far
RECURSIVE resolveParameters(_, _, _, _, _, _)
resolveParameters(gs, cs, t, i, values, orders) ==
    IF i > Len(t.ins) THEN Bound(gs, cs, values, NoError)
    ELSE LET next(r) ==
                 IF r.err # NoError THEN Bound(r.groups, r.calls, <<>>, r.err)
                 ELSE resolveParameters(r.groups, r.calls, t, i + 1,
                                        values \o r.values, orders)
         IN  next(resolveParameter(gs, cs, t, i, orders))

\* callFunction failing for a function with no result
callFunction_noResultFails(gs, cs, delegate, id, parameters) ==
    LET n == cs[id] + 1
        counted == [cs EXCEPT ![id] = n]
        instance == CASE delegate.yields = "new"  -> Built(id, n, parameters)
                      [] delegate.yields = "zero" -> Zero
                      [] OTHER                    -> Nil
    IN  IF delegate.isNil
        THEN Failed(gs, cs, Panic("reflect: call of nil function"))
        ELSE IF \E i \in DOMAIN parameters : parameters[i] = One(Nil)
        THEN Failed(gs, cs, Panic("reflect: Call using zero Value argument"))
        ELSE IF Len(delegate.outs) = 0
        THEN Failed(gs, counted, ValidationError("function must have a return value"))
        ELSE IF Len(delegate.outs) = 2 /\ delegate.fails
        THEN IF ImplementsError(delegate.outs[2])
             THEN [groups |-> gs, calls |-> counted, data |-> instance, err |-> FactoryError(id)]
             ELSE Failed(gs, counted, Panic("interface conversion"))
        ELSE [groups |-> gs, calls |-> counted, data |-> instance, err |-> NoError]

\* callFunction returning no value next to an error
callFunction_errorVoidsValue(gs, cs, delegate, id, parameters) ==
    LET n == cs[id] + 1
        counted == [cs EXCEPT ![id] = n]
        instance == CASE delegate.yields = "new"  -> Built(id, n, parameters)
                      [] delegate.yields = "zero" -> Zero
                      [] OTHER                    -> Nil
    IN  IF delegate.isNil
        THEN Failed(gs, cs, Panic("reflect: call of nil function"))
        ELSE IF \E i \in DOMAIN parameters : parameters[i] = One(Nil)
        THEN Failed(gs, cs, Panic("reflect: Call using zero Value argument"))
        ELSE IF Len(delegate.outs) = 0
        THEN [groups |-> gs, calls |-> counted, data |-> Nil, err |-> NoError]
        ELSE IF Len(delegate.outs) = 2 /\ delegate.fails
        THEN IF ImplementsError(delegate.outs[2])
             THEN [groups |-> gs, calls |-> counted, data |-> Nil, err |-> FactoryError(id)]
             ELSE Failed(gs, counted, Panic("interface conversion"))
        ELSE [groups |-> gs, calls |-> counted, data |-> instance, err |-> NoError]

\* constructorValue.Call(parameters) and the normalisation of its results, for
\* the id-th registration's function: Call panics for the invalid reflect.Value
\* of a nil argument, and the assertion .(error) for a second result that is
\* not an error
callFunction(gs, cs, delegate, id, parameters) ==
    LET n == cs[id] + 1
        counted == [cs EXCEPT ![id] = n]
        instance == CASE delegate.yields = "new"  -> Built(id, n, parameters)
                      [] delegate.yields = "zero" -> Zero
                      [] OTHER                    -> Nil
    IN  IF delegate.isNil
        THEN Failed(gs, cs, Panic("reflect: call of nil function"))
        ELSE IF \E i \in DOMAIN parameters : parameters[i] = One(Nil)
        THEN Failed(gs, cs, Panic("reflect: Call using zero Value argument"))
        ELSE IF Len(delegate.outs) = 0
        THEN [groups |-> gs, calls |-> counted, data |-> Nil, err |-> NoError]
        ELSE IF Len(delegate.outs) = 2 /\ delegate.fails
        THEN IF ImplementsError(delegate.outs[2])
             THEN [groups |-> gs, calls |-> counted, data |-> instance, err |-> FactoryError(id)]
             ELSE Failed(gs, counted, Panic("interface conversion"))
        ELSE [groups |-> gs, calls |-> counted, data |-> instance, err |-> NoError]

\* Invoke(resolver, delegate), for the id-th registration's function or, with
\* id 0, for a function the caller passes
Invoke(gs, cs, delegate, id, orders) ==
    LET err == validateDelegateType(delegate) IN
    IF err # NoError THEN Failed(gs, cs, err)
    ELSE LET called(p) ==
                 IF p.err # NoError THEN Failed(p.groups, p.calls, p.err)
                 ELSE callFunction(p.groups, p.calls, delegate, id, p.values)
         IN  called(resolveParameters(gs, cs, delegate, 1, <<>>, orders))

\* RegisterConstructor registering under the type of the last result
RegisterConstructor_lastResult(gs, defaults, id, constructor, options) ==
    LET err == validateDelegateTypeIsConstructor(constructor) IN
    IF err # NoError THEN [groups |-> gs, err |-> err]
    ELSE [groups |-> RegisterDynamic(gs, defaults, id, constructor.outs[Len(constructor.outs)],
                                     InvokeResolver(constructor), options),
          err |-> NoError]

\* RegisterConstructor: the groups as it leaves them, and its error
RegisterConstructor(gs, defaults, id, constructor, options) ==
    LET err == validateDelegateTypeIsConstructor(constructor) IN
    IF err # NoError THEN [groups |-> gs, err |-> err]
    ELSE [groups |-> RegisterDynamic(gs, defaults, id, constructor.outs[1],
                                     InvokeResolver(constructor), options),
          err |-> NoError]

-----------------------------------------------------------------------------
(* Inject: the tagged, settable fields of the target are set to what       *)
(* Resolve returns for their types, in declaration order.                  *)

\* the loop of Inject skipping a field whose resolution fails
RECURSIVE injectFields_skipsFailed(_, _, _, _, _, _)
injectFields_skipsFailed(gs, cs, fields, values, i, orders) ==
    IF i > Len(fields) THEN Bound(gs, cs, values, NoError)
    ELSE IF ~fields[i].tagged \/ ~fields[i].exported
    THEN injectFields_skipsFailed(gs, cs, fields, values, i + 1, orders)
    ELSE LET set(r) ==
                 IF r.err # NoError
                 THEN injectFields_skipsFailed(r.groups, r.calls, fields, values, i + 1, orders)
                 ELSE IF r.data = Nil
                 THEN Bound(r.groups, r.calls, values, Panic("reflect.Value.Set"))
                 ELSE injectFields_skipsFailed(r.groups, r.calls, fields,
                                               [values EXCEPT ![i] = r.data], i + 1, orders)
         IN  set(Resolve(gs, cs, fields[i].type, orders))

\* the loop of Inject resolving the fields that are not exported too
RECURSIVE injectFields_setsUnexported(_, _, _, _, _, _)
injectFields_setsUnexported(gs, cs, fields, values, i, orders) ==
    IF i > Len(fields) THEN Bound(gs, cs, values, NoError)
    ELSE IF ~fields[i].tagged
    THEN injectFields_setsUnexported(gs, cs, fields, values, i + 1, orders)
    ELSE LET set(r) ==
                 IF r.err # NoError THEN Bound(r.groups, r.calls, values, r.err)
                 ELSE IF r.data = Nil
                 THEN Bound(r.groups, r.calls, values, Panic("reflect.Value.Set"))
                 ELSE injectFields_setsUnexported(r.groups, r.calls, fields,
                                                  [values EXCEPT ![i] = r.data], i + 1, orders)
         IN  set(Resolve(gs, cs, fields[i].type, orders))

\* the loop of Inject from field i on, values holding what the fields hold:
\* reflect.Value.Set panics for the invalid reflect.Value of a nil value
RECURSIVE injectFields(_, _, _, _, _, _)
injectFields(gs, cs, fields, values, i, orders) ==
    IF i > Len(fields) THEN Bound(gs, cs, values, NoError)
    ELSE IF ~fields[i].tagged \/ ~fields[i].exported
    THEN injectFields(gs, cs, fields, values, i + 1, orders)
    ELSE LET set(r) ==
                 IF r.err # NoError THEN Bound(r.groups, r.calls, values, r.err)
                 ELSE IF r.data = Nil
                 THEN Bound(r.groups, r.calls, values, Panic("reflect.Value.Set"))
                 ELSE injectFields(r.groups, r.calls, fields,
                                   [values EXCEPT ![i] = r.data], i + 1, orders)
         IN  set(Resolve(gs, cs, fields[i].type, orders))

\* Inject(resolver, instance): the values of the fields as it leaves them, and
\* its error; Elem and NumField panic unless instance points to a struct
Inject(gs, cs, instance, orders) ==
    IF instance.kind # "pointer"
    THEN Bound(gs, cs, instance.values, Panic("reflect"))
    ELSE injectFields(gs, cs, instance.fields, instance.values, 1, orders)

-----------------------------------------------------------------------------
(* The inputs explored.  A run draws the arguments of its calls from a     *)
(* finite set of inputs in: the types registered, the types looked up or   *)
(* removed, the names looked up, the instances the caller holds at each    *)
(* registration, the delegates registered, the option lists passed at a    *)
(* registration and at NewContainer.                                       *)

Inputs(types, lookups, names, instances, delegates, options, defaults) ==
    [types |-> types, lookups |-> lookups, names |-> names, instances |-> instances,
     delegates |-> delegates, options |-> options, defaults |-> defaults]

\* the inputs in, with the functions passed to RegisterConstructor and to Invoke
WithFunctions(in, constructors, functions) ==
    [types |-> in.types, lookups |-> in.lookups, names |-> in.names,
     instances |-> in.instances, delegates |-> in.delegates, options |-> in.options,
     defaults |-> in.defaults, constructors |-> constructors, functions |-> functions]

\* the inputs in, with the targets passed to Inject
WithTargets(in, targets) ==
    [types |-> in.types, lookups |-> in.lookups, names |-> in.names,
     instances |-> in.instances, delegates |-> in.delegates, options |-> in.options,
     defaults |-> in.defaults, targets |-> targets]

\* the option lists of at most two options drawn from os
ListsOf(os) == {<<>>} \cup {<<o>> : o \in os} \cup {<<o1, o2>> : o1 \in os, o2 \in os}


-----------------------------------------------------------------------------
(* The operations of Container, as the steps of a single caller. *)

\* a caller of Resolve: pc is the statement of containerItem.resolve it executes
\* next, key and place say which item it resolves, data and err are its locals
Thread(pc, key, place, data, err) ==
    [pc |-> pc, key |-> key, place |-> place, data |-> data, err |-> err]
Idle == Thread("idle", "", Indexed(0), Nil, NoError)

NoTarget == PointerTo(<<>>, <<>>)
Call(op, t, name, delegate, options) ==
    [op |-> op, t |-> t, name |-> name, delegate |-> delegate, options |-> options,
     target |-> NoTarget]
NoDelegate == FuncResolver("nil", Nil, FALSE)
\* fields: what the fields of the target hold when Inject returns
Return(data, all, m, err) ==
    [data |-> data, all |-> all, m |-> m, err |-> err, fields |-> <<>>]
NoReturn == Return(Nil, <<>>, <<>>, NoError)

\* NewContainer(options...)
NewContainer(in) ==
    /\ groups = <<>>
    /\ defaultOptions \in in.defaults
    /\ calls = [id \in Nested..MaxRegs |-> 0]
    /\ nextId = 1
    /\ call = Call("NewContainer", "", "", NoDelegate, <<>>)
    /\ ret = NoReturn
    /\ threads = [th \in Threads |-> Idle]

\* a registration leaves the groups as gs
Registered(gs, op, t, delegate, options) ==
    /\ groups' = gs
    /\ nextId' = nextId + 1
    /\ call' = Call(op, t, "", delegate, options)
    /\ ret' = NoReturn
    /\ UNCHANGED <<defaultOptions, calls, threads>>

CallRegisterInstance(in) ==
    /\ nextId <= MaxRegs
    /\ \E t \in in.types, instance \in in.instances[nextId], options \in in.options :
           Registered(RegisterInstance(groups, defaultOptions, nextId, t, instance, options),
                      "RegisterInstance", t, FuncResolver("given", instance, FALSE), options)

CallRegisterDynamic(in) ==
    /\ nextId <= MaxRegs
    /\ \E t \in in.types, delegate \in in.delegates, options \in in.options :
           Registered(RegisterDynamic(groups, defaultOptions, nextId, t, delegate, options),
                      "RegisterDynamic", t, delegate, options)

CallReplaceInstance(in) ==
    /\ nextId <= MaxRegs
    /\ \E t \in in.types, instance \in in.instances[nextId], options \in in.options :
           Registered(ReplaceInstance(groups, defaultOptions, nextId, t, instance, options),
                      "ReplaceInstance", t, FuncResolver("given", instance, FALSE), options)

CallReplaceDynamic(in) ==
    /\ nextId <= MaxRegs
    /\ \E t \in in.types, delegate \in in.delegates, options \in in.options :
           Registered(ReplaceDynamic(groups, defaultOptions, nextId, t, delegate, options),
                      "ReplaceDynamic", t, delegate, options)

CallRemoveAll(in) ==
    \E t \in in.lookups :
        /\ groups' = RemoveAll(groups, t)
        /\ call' = Call("RemoveAll", t, "", NoDelegate, <<>>)
        /\ ret' = NoReturn
        /\ UNCHANGED <<defaultOptions, calls, nextId, threads>>

\* the number of resolver invocations counted in cs
RECURSIVE invocations(_, _)
invocations(cs, id) == IF id < 0 THEN 0 ELSE cs[id] + invocations(cs, id - 1)

\* the call returns: the orders it drew are consumed
Returns(cs) == [cs EXCEPT ![Ranges] = 0, ![Nested] = 0]

\* a call is explored when it stays within the invocations, the draws and the
\* nesting of the exploration
Explored(r) ==
    /\ invocations(r.calls, MaxRegs) <= MaxCalls
    /\ r.err # Unexplored
    /\ r.err # Undrawn

\* a resolution leaves groups and calls as r has them
Resolved(r, op, t, name, result) ==
    /\ Explored(r)
    /\ groups' = r.groups
    /\ calls' = Returns(r.calls)
    /\ call' = Call(op, t, name, NoDelegate, <<>>)
    /\ ret' = result
    /\ UNCHANGED <<defaultOptions, nextId, threads>>

CallResolve(in) ==
    \E t \in in.lookups :
    LET RECURSIVE does(_)
        does(orders) ==
            LET next(r) ==
                    IF drawn(groups, 1, r, orders) THEN {r}
                    ELSE UNION {does(Append(orders, draw)) : draw \in Draws(groups)}
            IN  next(Resolve(groups, calls, t, orders))
    IN  \E r \in does(<<>>) :
        Resolved(r, "Resolve", t, "", Return(r.data, <<>>, <<>>, r.err))

CallResolveByName(in) ==
    \E t \in in.lookups : \E name \in in.names :
    LET RECURSIVE does(_)
        does(orders) ==
            LET next(r) ==
                    IF drawn(groups, 1, r, orders) THEN {r}
                    ELSE UNION {does(Append(orders, draw)) : draw \in Draws(groups)}
            IN  next(ResolveByName(groups, calls, t, name, orders))
    IN  \E r \in does(<<>>) :
        Resolved(r, "ResolveByName", t, name, Return(r.data, <<>>, <<>>, r.err))

CallResolveAll(in) ==
    \E t \in in.lookups :
    LET RECURSIVE does(_)
        does(orders) ==
            LET next(r) ==
                    IF drawn(groups, 1, r, orders) THEN {r}
                    ELSE UNION {does(Append(orders, draw)) : draw \in Draws(groups)}
            IN  next(ResolveAll(groups, calls, t, orders))
    IN  \E r \in does(<<>>) :
        Resolved(r, "ResolveAll", t, "", Return(Nil, r.all, <<>>, r.err))

CallResolveMap(in) ==
    \E t \in in.lookups :
    LET RECURSIVE does(_)
        does(orders) ==
            LET next(r) ==
                    IF drawn(groups, 1, r, orders) THEN {r}
                    ELSE UNION {does(Append(orders, draw)) : draw \in Draws(groups)}
            IN  next(ResolveMap(groups, calls, t, orders))
    IN  \E r \in does(<<>>) :
        Resolved(r, "ResolveMap", t, "", Return(Nil, <<>>, r.m, r.err))

\* RegisterConstructor(constructor, options...): an item is allocated only when
\* the constructor is valid
CallRegisterConstructor(in) ==
    /\ nextId <= MaxRegs
    /\ \E constructor \in in.constructors, options \in in.options :
           LET r == RegisterConstructor(groups, defaultOptions, nextId, constructor, options) IN
           /\ groups' = r.groups
           /\ nextId' = IF r.err = NoError THEN nextId + 1 ELSE nextId
           /\ call' = Call("RegisterConstructor", "", "", InvokeResolver(constructor), options)
           /\ ret' = Return(Nil, <<>>, <<>>, r.err)
           /\ UNCHANGED <<defaultOptions, calls, threads>>

\* Invoke(c, delegate): the runs of delegate are counted in calls[0]
CallInvoke(in) ==
    \E delegate \in in.functions :
    LET RECURSIVE does(_)
        does(orders) ==
            LET next(r) ==
                    IF drawn(groups, Len(delegate.ins), r, orders) THEN {r}
                    ELSE UNION {does(Append(orders, draw)) : draw \in Draws(groups)}
            IN  next(Invoke(groups, calls, delegate, 0, orders))
    IN  \E r \in does(<<>>) :
        /\ Explored(r)
        /\ groups' = r.groups
        /\ calls' = Returns(r.calls)
        /\ call' = Call("Invoke", "", "", InvokeResolver(delegate), <<>>)
        /\ ret' = Return(r.data, <<>>, <<>>, r.err)
        /\ UNCHANGED <<defaultOptions, nextId, threads>>

\* Inject(c, instance)
CallInject(in) ==
    \E instance \in in.targets :
    LET RECURSIVE does(_)
        does(orders) ==
            LET next(r) ==
                    IF drawn(groups, Len(instance.fields), r, orders) THEN {r}
                    ELSE UNION {does(Append(orders, draw)) : draw \in Draws(groups)}
            IN  next(Inject(groups, calls, instance, orders))
    IN  \E r \in does(<<>>) :
        /\ Explored(r)
        /\ groups' = r.groups
        /\ calls' = Returns(r.calls)
        /\ call' = [Call("Inject", "", "", NoDelegate, <<>>) EXCEPT !.target = instance]
        /\ ret' = [Return(Nil, <<>>, <<>>, r.err) EXCEPT !.fields = r.values]
        /\ UNCHANGED <<defaultOptions, nextId, threads>>

-----------------------------------------------------------------------------
(* Concurrent callers.  Each thread calls Resolve and goes through the     *)
(* statements of containerItem.resolve one at a time; nothing orders the   *)
(* reads and writes of i.data and i.err of two threads.  The assignment of *)
(* an interface value, i.data or i.err, writes two words, so that a read   *)
(* between the two writes sees the old value or a torn one.  The items     *)
(* resolved are those of factories that resolve nothing themselves: the    *)
(* run of such a resolver touches no item and is one step, whereas a       *)
(* constructor resolves its parameters statement by statement.             *)
(* Registrations are made while no thread is resolving.                    *)

AllIdle == \A th \in Threads : threads[th] = Idle

\* the item the thread resolves
itemOf(th) == itemAt(groups[threads[th].key], threads[th].place)

\* the thread th goes on as thread, and the item it resolves becomes item
Stepped(th, thread, item) ==
    /\ threads' = [threads EXCEPT ![th] = thread]
    /\ groups' = storeItem(groups, threads[th].key, threads[th].place, item)
    /\ UNCHANGED <<defaultOptions, nextId, call, ret>>

\* if i.err != nil
errCached(item) == item.err # NoError
\* the test of i.data finding no item cached
dataCached_never(item) == FALSE
\* if i.data != nil
dataCached(item) == item.data # Nil

\* c.Resolve(t) up to the call of resolve on the item it picks
ThreadResolve(th, in) ==
    /\ threads[th].pc = "idle"
    /\ \E t \in in.lookups :
           LET g   == group(groups, t)
               key == typeKey(t)
           IN  \E thread \in
                    IF g.err # NoError
                    THEN {Thread("done", key, Indexed(0), Nil, g.err)}
                    ELSE IF Len(g.group.items) > 0
                    THEN {Thread("err", key, Indexed(Len(g.group.items)), Nil, NoError)}
                    ELSE IF Cardinality(DOMAIN g.group.namedItems) > 0
                    THEN {Thread("err", key, Named(name), Nil, NoError) :
                            name \in DOMAIN g.group.namedItems}
                    ELSE {Thread("done", key, Indexed(0), Nil, ErrNotExist(key))} :
                   /\ thread.pc = "err" =>
                        itemAt(g.group, thread.place).option.resolver.yields # "invoke"
                   /\ threads' = [threads EXCEPT ![th] = thread]
    /\ UNCHANGED <<groups, defaultOptions, calls, nextId, call, ret>>

\* if i.err != nil { return nil, i.err }
ThreadCheckErr(th) ==
    /\ threads[th].pc = "err"
    /\ Stepped(th, IF errCached(itemOf(th))
                   THEN [threads[th] EXCEPT !.pc = "done", !.err = itemOf(th).err]
                   ELSE [threads[th] EXCEPT !.pc = "data"],
               itemOf(th))
    /\ UNCHANGED calls

\* if i.data != nil { return i.data, nil }
ThreadCheckData(th) ==
    /\ threads[th].pc = "data"
    /\ Stepped(th, IF dataCached(itemOf(th))
                   THEN [threads[th] EXCEPT !.pc = "done", !.data = itemOf(th).data]
                   ELSE [threads[th] EXCEPT !.pc = "run"],
               itemOf(th))
    /\ UNCHANGED calls

\* data, err := i.option.resolver(r), and the test of the lifetime
ThreadRun(th) ==
    /\ threads[th].pc = "run"
    /\ LET item == itemOf(th)
           RECURSIVE does(_)
           does(orders) ==
               LET next(r) ==
                       IF drawn(groups, 0, r, orders) THEN {r}
                       ELSE UNION {does(Append(orders, draw)) : draw \in Draws(groups)}
               IN  next(runResolver(item.option.resolver, item.id, groups, calls, orders))
       IN  \E r \in does(<<>>) :
               /\ Explored(r)
               /\ calls' = Returns(r.calls)
               /\ groups' = r.groups
               /\ threads' = [threads EXCEPT ![th] =
                                [@ EXCEPT !.pc = IF item.option.lifetime = LifetimeStatic
                                                 THEN "store" ELSE "done",
                                          !.data = r.data, !.err = r.err]]
               /\ UNCHANGED <<defaultOptions, nextId, call, ret>>

\* the first of the two words of i.data = data: a reader sees the value the
\* item held, or the type of data with a nil pointer
ThreadStoreWord(th) ==
    /\ threads[th].pc = "store"
    /\ \E seen \in {itemOf(th).data} \cup
                    (IF itemOf(th).data = Nil /\ threads[th].data # Nil
                     THEN {TypedNil} ELSE {}) :
           Stepped(th, [threads[th] EXCEPT !.pc = "stored"],
                   [itemOf(th) EXCEPT !.data = seen])
    /\ UNCHANGED calls

\* i.data = data, complete
ThreadStoreData(th) ==
    /\ threads[th].pc = "stored"
    /\ Stepped(th, [threads[th] EXCEPT !.pc = "storeErr"],
               [itemOf(th) EXCEPT !.data = threads[th].data])
    /\ UNCHANGED calls

\* the first of the two words of i.err = err: a reader sees the error the item
\* held, or the type of err with a nil pointer
ThreadStoreErrWord(th) ==
    /\ threads[th].pc = "storeErr"
    /\ \E seen \in {itemOf(th).err} \cup
                    (IF itemOf(th).err = NoError /\ threads[th].err # NoError
                     THEN {TypedNilError} ELSE {}) :
           Stepped(th, [threads[th] EXCEPT !.pc = "storedErr"],
                   [itemOf(th) EXCEPT !.err = seen])
    /\ UNCHANGED calls

\* i.err = err, complete
ThreadStoreErr(th) ==
    /\ threads[th].pc = "storedErr"
    /\ Stepped(th, [threads[th] EXCEPT !.pc = "done"],
               [itemOf(th) EXCEPT !.err = threads[th].err])
    /\ UNCHANGED calls

\* return data, err: the caller has the result of its Resolve
ThreadReturn(th) ==
    /\ threads[th].pc = "done"
    /\ threads' = [threads EXCEPT ![th] = Idle]
    /\ call' = Call("Resolve", threads[th].key, "", NoDelegate, <<>>)
    /\ ret' = Return(threads[th].data, <<>>, <<>>, threads[th].err)
    /\ UNCHANGED <<groups, defaultOptions, calls, nextId>>

-----------------------------------------------------------------------------
(* Specification of the registration store: anonymous and named items of   *)
(* one type, instances and failing delegates, either lifetime as default.  *)

StoreInputs ==
    Inputs({"T"}, {"T"}, {"a", "b"},
           [id \in Ids |-> {Instance(id)}],
           {FuncResolver("nil", Nil, TRUE)},
           {<<>>, <<WithName("a")>>, <<WithName("b")>>},
           {<<>>, <<WithDefaultLifetime(LifetimePerRequest)>>})

Init == NewContainer(StoreInputs)

Next ==
    \/ CallRegisterInstance(StoreInputs)
    \/ CallRegisterDynamic(StoreInputs)
    \/ CallReplaceInstance(StoreInputs)
    \/ CallReplaceDynamic(StoreInputs)
    \/ CallRemoveAll(StoreInputs)
    \/ CallResolve(StoreInputs)
    \/ CallResolveByName(StoreInputs)
    \/ CallResolveAll(StoreInputs)
    \/ CallResolveMap(StoreInputs)

Spec == Init /\ [][Next]_vars

-----------------------------------------------------------------------------
(* Specification of lifetimes: delegates that allocate a fresh object on   *)
(* every run, registered with every list of at most two options, in a      *)
(* container built with every list of at most two default lifetimes.       *)

LifetimeInputs ==
    Inputs({"T"}, {"T"}, {"a"},
           [id \in Ids |-> {}],
           {FuncResolver("new", Nil, FALSE)},
           ListsOf({WithLifetime(LifetimeStatic), WithLifetime(LifetimePerRequest),
                    WithName("a")}),
           ListsOf({WithDefaultLifetime(LifetimeStatic),
                    WithDefaultLifetime(LifetimePerRequest)}))

InitLifetime == NewContainer(LifetimeInputs)

NextLifetime ==
    \/ CallRegisterDynamic(LifetimeInputs)
    \/ CallRemoveAll(LifetimeInputs)
    \/ CallResolve(LifetimeInputs)
    \/ CallResolveByName(LifetimeInputs)
    \/ CallResolveAll(LifetimeInputs)
    \/ CallResolveMap(LifetimeInputs)

SpecLifetime == InitLifetime /\ [][NextLifetime]_vars

-----------------------------------------------------------------------------
(* Specification of the cache: delegates that return every combination of  *)
(* a nil or fresh value with a nil or non-nil error, registered with       *)
(* either lifetime, anonymously or (PerRequest) under a name, and reached  *)
(* by Resolve and ResolveAll.                                              *)

CacheInputs ==
    Inputs({"T"}, {"T"}, {"a"},
           [id \in Ids |-> {}],
           {FuncResolver("new", Nil, FALSE), FuncResolver("nil", Nil, FALSE),
            FuncResolver("new", Nil, TRUE), FuncResolver("nil", Nil, TRUE)},
           {<<WithLifetime(LifetimeStatic)>>, <<WithLifetime(LifetimePerRequest)>>,
            <<WithLifetime(LifetimePerRequest), WithName("a")>>},
           {<<>>})

InitCache == NewContainer(CacheInputs)

NextCache ==
    \/ CallRegisterDynamic(CacheInputs)
    \/ CallRemoveAll(CacheInputs)
    \/ CallResolve(CacheInputs)
    \/ CallResolveAll(CacheInputs)

SpecCache == InitCache /\ [][NextCache]_vars

-----------------------------------------------------------------------------
(* Specification of constructors: functions of every result shape passed   *)
(* to RegisterConstructor, the valid ones returning T from a parameter of  *)
(* type U or failing, and instances registered as U, in a container whose  *)
(* default lifetime is PerRequest.                                         *)

\* func(u U) T, func() (T, error) returning an error, func(), func() (T, U),
\* func() (T, U, error) and func() error
Constructors ==
    {Func(<<Plain("U")>>, FALSE, <<"T">>, "new", FALSE),
     Func(<<>>, FALSE, <<"T", "error">>, "nil", TRUE),
     Func(<<>>, FALSE, <<>>, "nil", FALSE),
     Func(<<>>, FALSE, <<"T", "U">>, "nil", FALSE),
     Func(<<>>, FALSE, <<"T", "U", "error">>, "nil", FALSE),
     Func(<<>>, FALSE, <<"error">>, "nil", FALSE)}

ConstructorInputs ==
    WithFunctions(Inputs({"U"}, {"T", "U"}, {"a"},
                         [id \in Ids |-> {Instance(id)}],
                         {},
                         {<<>>, <<WithName("a")>>},
                         {<<WithDefaultLifetime(LifetimePerRequest)>>}),
                  Constructors, {})

InitConstructor == NewContainer(ConstructorInputs)

NextConstructor ==
    \/ CallRegisterInstance(ConstructorInputs)
    \/ CallRegisterConstructor(ConstructorInputs)
    \/ CallResolve(ConstructorInputs)

SpecConstructor == InitConstructor /\ [][NextConstructor]_vars

-----------------------------------------------------------------------------
(* Specification of Invoke: functions with two plain parameters, a slice   *)
(* parameter, and a slice parameter followed by a variadic one, invoked on *)
(* a container that holds instances and failing factories of the types D   *)
(* and S.                                                                  *)

\* func(d D, s S) S
FuncPlain == Func(<<Plain("D"), Plain("S")>>, FALSE, <<"S">>, "new", FALSE)
\* func(ds []D) A
FuncSlice == Func(<<SliceOf("D", "[]D")>>, FALSE, <<"A">>, "new", FALSE)
\* func(ds []D, more ...D) A
FuncVariadic ==
    Func(<<SliceOf("D", "[]D"), SliceOf("D", "[]D")>>, TRUE, <<"A">>, "new", FALSE)

InvokeInputs ==
    WithFunctions(Inputs({"D", "S"}, {}, {"a"},
                         [id \in Ids |-> {Instance(id)}],
                         {FuncResolver("nil", Nil, TRUE)},
                         {<<>>, <<WithName("a")>>},
                         {<<>>}),
                  {}, {FuncPlain, FuncSlice, FuncVariadic})

InitInvoke == NewContainer(InvokeInputs)

NextInvoke ==
    \/ CallRegisterInstance(InvokeInputs)
    \/ CallRegisterDynamic(InvokeInputs)
    \/ CallInvoke(InvokeInputs)

SpecInvoke == InitInvoke /\ [][NextInvoke]_vars

-----------------------------------------------------------------------------
(* Specification of map parameters: a function with a string-keyed map     *)
(* parameter and a function with two parameters of type D, invoked on a    *)
(* container that holds, anonymous or under the names x and y, instances   *)
(* of D and factories of D that return a nil value and no error.           *)

\* func(m map[string]D) A
FuncMap == Func(<<MapOf("string", "D", "map[string]D")>>, FALSE, <<"A">>, "new", FALSE)
\* func(d1 D, d2 D) A
FuncPair == Func(<<Plain("D"), Plain("D")>>, FALSE, <<"A">>, "new", FALSE)

MapInputs ==
    WithFunctions(Inputs({"D"}, {}, {"x", "y"},
                         [id \in Ids |-> {Instance(id)}],
                         {FuncResolver("nil", Nil, FALSE)},
                         {<<>>, <<WithName("x")>>, <<WithName("y")>>},
                         {<<>>}),
                  {}, {FuncMap, FuncPair})

InitMap == NewContainer(MapInputs)

NextMap ==
    \/ CallRegisterInstance(MapInputs)
    \/ CallRegisterDynamic(MapInputs)
    \/ CallInvoke(MapInputs)

SpecMap == InitMap /\ [][NextMap]_vars

-----------------------------------------------------------------------------
(* Specification of results: functions of every result shape, and values   *)
(* that are not functions, passed to Invoke and to RegisterConstructor, on *)
(* a container that holds instances of D; the constructors registered are  *)
(* resolved as T.                                                          *)

\* func() T returning a fresh value, and returning nil
FuncOne == Func(<<>>, FALSE, <<"T">>, "new", FALSE)
FuncOneNil == Func(<<>>, FALSE, <<"T">>, "nil", FALSE)
\* func() int returning 0
FuncOneZero == Func(<<>>, FALSE, <<"int">>, "zero", FALSE)
\* func() (T, error) returning (value, nil), (value, err) and (nil, err)
FuncTwo == Func(<<>>, FALSE, <<"T", "error">>, "new", FALSE)
FuncTwoFails == Func(<<>>, FALSE, <<"T", "error">>, "new", TRUE)
FuncTwoNilFails == Func(<<>>, FALSE, <<"T", "error">>, "nil", TRUE)
\* func() (T, U) returning two non-zero values
FuncTwoValues == Func(<<>>, FALSE, <<"T", "U">>, "new", TRUE)
\* func(d D), with no result
FuncNone == Func(<<Plain("D")>>, FALSE, <<>>, "nil", FALSE)
\* 5, struct{}{}, &struct{}{} and nil
NotFunctions == {NotFunc("int"), NotFunc("struct"), NotFunc("pointer"), NotFunc("nil")}

ResultInputs ==
    WithFunctions(Inputs({"D"}, {"T"}, {},
                         [id \in Ids |-> {Instance(id)}],
                         {},
                         {<<>>},
                         {<<>>, <<WithDefaultLifetime(LifetimePerRequest)>>}),
                  {FuncTwoFails, FuncNone} \cup NotFunctions,
                  {FuncOne, FuncOneNil, FuncOneZero, FuncTwo, FuncTwoFails, FuncTwoNilFails,
                   FuncTwoValues, FuncNone} \cup NotFunctions)

InitResult == NewContainer(ResultInputs)

NextResult ==
    \/ CallRegisterInstance(ResultInputs)
    \/ CallRegisterConstructor(ResultInputs)
    \/ CallInvoke(ResultInputs)
    \/ CallResolve(ResultInputs)

SpecResult == InitResult /\ [][NextResult]_vars

-----------------------------------------------------------------------------
(* Specification of Inject: a struct with tagged, untagged and unexported  *)
(* fields, injected from a container that holds instances and failing      *)
(* factories of the types A, B and C, Static or PerRequest.                *)

\* struct { First A `inject:""`; Plain C; hidden C `inject:""`;
\*          Second B `inject:""`; Last A `inject:""` }
TargetFields ==
    <<StructField("First", "A", TRUE, TRUE), StructField("Plain", "C", FALSE, TRUE),
      StructField("hidden", "C", TRUE, FALSE), StructField("Second", "B", TRUE, TRUE),
      StructField("Last", "A", TRUE, TRUE)>>
Target == PointerTo(TargetFields, [i \in 1..Len(TargetFields) |-> Previous(i)])

InjectInputs ==
    WithTargets(Inputs({"A", "B", "C"}, {}, {},
                       [id \in Ids |-> {Instance(id)}],
                       {FuncResolver("nil", Nil, TRUE)},
                       {<<>>},
                       {<<>>, <<WithDefaultLifetime(LifetimePerRequest)>>}),
                {Target})

InitInject == NewContainer(InjectInputs)

NextInject ==
    \/ CallRegisterInstance(InjectInputs)
    \/ CallRegisterDynamic(InjectInputs)
    \/ CallInject(InjectInputs)

SpecInject == InitInject /\ [][NextInject]_vars

-----------------------------------------------------------------------------
(* Specification of concurrent resolution: two threads resolve T, whose    *)
(* items are factories that return a fresh object on every run, Static or  *)
(* PerRequest.                                                             *)

RaceInputs ==
    Inputs({"T"}, {"T"}, {},
           [id \in Ids |-> {}],
           {FuncResolver("new", Nil, FALSE), FuncResolver("new", Nil, TRUE)},
           {<<WithLifetime(LifetimeStatic)>>, <<WithLifetime(LifetimePerRequest)>>},
           {<<>>})

InitRace == NewContainer(RaceInputs)

NextRace ==
    \/ AllIdle /\ CallRegisterDynamic(RaceInputs)
    \/ \E th \in Threads :
            \/ ThreadResolve(th, RaceInputs)
            \/ ThreadCheckErr(th)
            \/ ThreadCheckData(th)
            \/ ThreadRun(th)
            \/ ThreadStoreWord(th)
            \/ ThreadStoreData(th)
            \/ ThreadStoreErrWord(th)
            \/ ThreadStoreErr(th)
            \/ ThreadReturn(th)

SpecRace == InitRace /\ [][NextRace]_vars

-----------------------------------------------------------------------------
(* Specification of isolation: every registration operation and RemoveAll  *)
(* on the types X (of the package a/pkg) and U, whose items are Static     *)
(* instances, factories and constructors; the lookups also use the type X  *)
(* of the package b/pkg, which has the key of the other X.                 *)

\* func() U, and func(x X) U for the X of a/pkg
IsolationConstructors ==
    {Func(<<>>, FALSE, <<"U">>, "new", FALSE),
     Func(<<Plain("a/pkg.X")>>, FALSE, <<"U">>, "new", FALSE)}

IsolationInputs ==
    WithFunctions(Inputs({"a/pkg.X", "U"}, {"a/pkg.X", "b/pkg.X", "U"}, {"a"},
                         [id \in Ids |-> {Instance(id)}],
                         {FuncResolver("new", Nil, FALSE)},
                         {<<>>},
                         {<<>>}),
                  IsolationConstructors, {})

InitIsolation == NewContainer(IsolationInputs)

NextIsolation ==
    \/ CallRegisterInstance(IsolationInputs)
    \/ CallRegisterDynamic(IsolationInputs)
    \/ CallRegisterConstructor(IsolationInputs)
    \/ CallReplaceInstance(IsolationInputs)
    \/ CallReplaceDynamic(IsolationInputs)
    \/ CallRemoveAll(IsolationInputs)
    \/ CallResolve(IsolationInputs)

SpecIsolation == InitIsolation /\ [][NextIsolation]_vars

-----------------------------------------------------------------------------
(* Specification of names: instances and failing factories of one type,    *)
(* registered anonymously, under the name a, under the empty name, and     *)
(* under the name a and then the empty name.                               *)

NameInputs ==
    Inputs({"T"}, {"T"}, {"a", ""},
           [id \in Ids |-> {Instance(id)}],
           {FuncResolver("nil", Nil, TRUE)},
           {<<>>, <<WithName("")>>, <<WithName("a")>>, <<WithName("a"), WithName("")>>},
           {<<>>})

InitName == NewContainer(NameInputs)

NextName ==
    \/ CallRegisterInstance(NameInputs)
    \/ CallRegisterDynamic(NameInputs)
    \/ CallReplaceInstance(NameInputs)
    \/ CallRemoveAll(NameInputs)
    \/ CallResolveByName(NameInputs)
    \/ CallResolveAll(NameInputs)

SpecName == InitName /\ [][NextName]_vars

-----------------------------------------------------------------------------
(* Specification of cycles: constructors of T whose parameters are T,      *)
(* registered anonymously or under the name a or b next to instances of T, *)
(* and every operation that resolves.  A process that has overflowed its   *)
(* stack takes no further step.                                            *)

\* func(t T) T
TFromT == Func(<<Plain("T")>>, FALSE, <<"T">>, "new", FALSE)
\* func(t, u T) T
TFromTT == Func(<<Plain("T"), Plain("T")>>, FALSE, <<"T">>, "new", FALSE)
\* func(t T) A, passed to Invoke
FuncOfT == Func(<<Plain("T")>>, FALSE, <<"A">>, "new", FALSE)
\* struct { Field T `inject:""` }
TargetOfT == PointerTo(<<StructField("Field", "T", TRUE, TRUE)>>, <<Previous(1)>>)

CycleInputs ==
    LET in == Inputs({"T"}, {"T"}, {"a"},
                     [id \in Ids |-> {Instance(id)}],
                     {},
                     {<<>>, <<WithName("a")>>, <<WithName("b")>>},
                     {<<>>, <<WithDefaultLifetime(LifetimePerRequest)>>})
    IN  [types |-> in.types, lookups |-> in.lookups, names |-> in.names,
         instances |-> in.instances, delegates |-> in.delegates, options |-> in.options,
         defaults |-> in.defaults,
         constructors |-> {TFromT, TFromTT}, functions |-> {FuncOfT}, targets |-> {TargetOfT}]

InitCycle == NewContainer(CycleInputs)

Alive == ret.err # StackOverflow

NextCycle ==
    \/ (Alive /\ CallRegisterInstance(CycleInputs))
    \/ (Alive /\ CallRegisterConstructor(CycleInputs))
    \/ (Alive /\ CallResolve(CycleInputs))
    \/ (Alive /\ CallResolveByName(CycleInputs))
    \/ (Alive /\ CallResolveAll(CycleInputs))
    \/ (Alive /\ CallResolveMap(CycleInputs))
    \/ (Alive /\ CallInvoke(CycleInputs))
    \/ (Alive /\ CallInject(CycleInputs))

SpecCycle == InitCycle /\ [][NextCycle]_vars

-----------------------------------------------------------------------------
(* Specification of dependencies: a constructor of T from the named U, a   *)
(* U and every U, and a constructor of U from every T, registered          *)
(* anonymously or under the name a next to instances of U, in a container  *)
(* whose items are Static, and the four resolution operations on T and U.  *)

\* func(m map[string]U, u U, us []U) T
TFromUs ==
    Func(<<MapOf("string", "U", "map[string]U"), Plain("U"), SliceOf("U", "[]U")>>,
         FALSE, <<"T">>, "new", FALSE)
\* func(ts ...T) U
UFromTs == Func(<<SliceOf("T", "[]T")>>, TRUE, <<"U">>, "new", FALSE)

DependencyInputs ==
    WithFunctions(Inputs({"U"}, {"T", "U"}, {"a"},
                         [id \in Ids |-> {Instance(id)}],
                         {},
                         {<<>>, <<WithName("a")>>},
                         {<<>>}),
                  {TFromUs, UFromTs}, {})

InitDependency == NewContainer(DependencyInputs)

NextDependency ==
    \/ (Alive /\ CallRegisterInstance(DependencyInputs))
    \/ (Alive /\ CallRegisterConstructor(DependencyInputs))
    \/ (Alive /\ CallResolve(DependencyInputs))
    \/ (Alive /\ CallResolveByName(DependencyInputs))
    \/ (Alive /\ CallResolveAll(DependencyInputs))
    \/ (Alive /\ CallResolveMap(DependencyInputs))

SpecDependency == InitDependency /\ [][NextDependency]_vars

-----------------------------------------------------------------------------
(* Specification of partial resolution: factories of T that return a fresh *)
(* object or fail, Static or PerRequest, anonymous or under the names a    *)
(* (Static) and b (PerRequest), visited by ResolveAll and ResolveMap.      *)

PartialInputs ==
    Inputs({"T"}, {"T"}, {"a", "b"},
           [id \in Ids |-> {}],
           {FuncResolver("new", Nil, FALSE), FuncResolver("nil", Nil, TRUE)},
           {<<WithLifetime(LifetimeStatic)>>, <<WithLifetime(LifetimePerRequest)>>,
            <<WithLifetime(LifetimeStatic), WithName("a")>>,
            <<WithLifetime(LifetimePerRequest), WithName("b")>>},
           {<<>>})

InitPartial == NewContainer(PartialInputs)

NextPartial ==
    \/ CallRegisterDynamic(PartialInputs)
    \/ CallResolveAll(PartialInputs)
    \/ CallResolveMap(PartialInputs)

SpecPartial == InitPartial /\ [][NextPartial]_vars

-----------------------------------------------------------------------------
(* Vocabulary of the properties. *)

RegisterOps == {"RegisterInstance", "RegisterDynamic", "ReplaceInstance", "ReplaceDynamic"}
ResolveOps == {"Resolve", "ResolveByName", "ResolveAll", "ResolveMap"}

HasGroup(t) == typeKey(t) \in DOMAIN groups
AnonymousOf(t) == groups[typeKey(t)].items
NamedOf(t) == groups[typeKey(t)].namedItems
Range(f) == {f[x] : x \in DOMAIN f}
ItemsOf(t) == Range(AnonymousOf(t)) \cup Range(NamedOf(t))

\* what resolving the item in the current state returns
DataOf(item) == resolve(item, groups, calls, CHOOSE orders \in OrdersOf(groups) : TRUE).data
ErrOf(item) == resolve(item, groups, calls, CHOOSE orders \in OrdersOf(groups) : TRUE).err
\* the delegate of the item returns no error
Succeeds(item) == ~item.option.resolver.fails

\* the anonymous item of t registered last: the one allocated last
LatestAnonymous(t) ==
    CHOOSE item \in Range(AnonymousOf(t)) :
        \A other \in Range(AnonymousOf(t)) : other.id <= item.id

\* the option list names nothing, or the empty name last
Unnamed(options) == applyOptions(registrationOption("", NoDelegate), options).name = ""

-----------------------------------------------------------------------------
(* Claims about the registration store, checked under Spec, where every    *)
(* item returns the same (data, err) each time it is resolved.             *)

\* C1: when the group of T holds at least one anonymous item, Resolve(T)
\* returns the result of the anonymous item registered last, whatever named
\* items were registered before or after it.
C1_ResolveLatestAnonymous ==
    (call.op = "Resolve" /\ HasGroup(call.t) /\ Len(AnonymousOf(call.t)) > 0) =>
        /\ ret.data = DataOf(LatestAnonymous(call.t))
        /\ ret.err = ErrOf(LatestAnonymous(call.t))

\* two anonymous items, then a named one; Resolve returned the second item's instance
C1_Witness ==
    /\ call.op = "Resolve" /\ HasGroup("T")
    /\ Len(AnonymousOf("T")) = 2
    /\ \E name \in DOMAIN NamedOf("T") : NamedOf("T")[name].id = 3
    /\ AnonymousOf("T")[1].option.resolver.yields = "given"
    /\ ret.data = Instance(2)

\* C2: RegisterInstance(T, v) followed by Resolve(T) returns exactly v with no
\* error, and so does every later Resolve(T) while the anonymous item registered
\* last under T is still that registration.
C2_InstanceResolvesToItself ==
    /\ (call.op = "RegisterInstance" /\ Unnamed(call.options)) =>
            \A orders \in OrdersOf(groups) :
                LET r == Resolve(groups, calls, call.t, orders) IN
                r.data = call.delegate.given /\ r.err = NoError
    /\ (/\ call.op = "Resolve" /\ HasGroup(call.t) /\ Len(AnonymousOf(call.t)) > 0
        /\ LatestAnonymous(call.t).option.resolver.yields = "given") =>
            /\ ret.data = LatestAnonymous(call.t).option.resolver.given
            /\ ret.err = NoError

\* the instance registered third was returned by Resolve after its closure had
\* run once already and its result was cached
C2_Witness ==
    /\ call.op = "Resolve" /\ HasGroup("T")
    /\ Len(AnonymousOf("T")) > 0
    /\ LatestAnonymous("T").id = 3
    /\ LatestAnonymous("T").data = Instance(3)
    /\ calls[3] = 1
    /\ ret.data = Instance(3) /\ ret.err = NoError

\* C7: when every item of the group of T resolves without error, ResolveAll(T)
\* returns one value per item: the values of the named items first, in some
\* order, then the values of the anonymous items in registration order.
C7_ResolveAllNamedThenAnonymous ==
    (/\ call.op = "ResolveAll" /\ HasGroup(call.t)
     /\ \A item \in ItemsOf(call.t) : Succeeds(item)) =>
        LET named == NamedOf(call.t)
            anon  == AnonymousOf(call.t)
            k     == Cardinality(DOMAIN named)
        IN  /\ ret.err = NoError
            /\ Len(ret.all) = k + Len(anon)
            /\ \E order \in Orders(named) :
                    \A i \in 1..k : ret.all[i] = DataOf(named[order[i]])
            /\ \A j \in 1..Len(anon) : ret.all[k + j] = DataOf(anon[j])
            /\ \A i, j \in 1..Len(anon) : i < j => anon[i].id < anon[j].id

\* a named item registered between two anonymous ones comes first in the result
C7_Witness ==
    /\ call.op = "ResolveAll" /\ HasGroup("T")
    /\ Len(AnonymousOf("T")) = 2
    /\ DOMAIN NamedOf("T") = {"a"}
    /\ NamedOf("T")["a"].id = 2
    /\ ret.all = <<Instance(2), Instance(1), Instance(3)>>

\* C8: ResolveByName(T, n) returns the result of the item registered under n in
\* the group of T; it fails with ErrNameNotExist when the group has no item named
\* n and with ErrNotExist when T has no group.
C8_ResolveByName ==
    (call.op = "ResolveByName") =>
        IF ~HasGroup(call.t)
        THEN IsErr(ret.err, "ErrNotExist") /\ ret.data = Nil
        ELSE IF call.name \notin DOMAIN NamedOf(call.t)
        THEN IsErr(ret.err, "ErrNameNotExist") /\ ret.data = Nil
        ELSE /\ ret.data = DataOf(NamedOf(call.t)[call.name])
             /\ ret.err = ErrOf(NamedOf(call.t)[call.name])

\* "b" was resolved by name next to another named item and an anonymous one
C8_Witness ==
    /\ call.op = "ResolveByName" /\ call.name = "b" /\ HasGroup("T")
    /\ DOMAIN NamedOf("T") = {"a", "b"}
    /\ Len(AnonymousOf("T")) = 1
    /\ NamedOf("T")["b"].id = 2
    /\ ret.data = Instance(2) /\ ret.err = NoError

\* C9: when T has a group whose named items resolve without error, ResolveMap(T)
\* returns a map whose keys are exactly the names registered under T, each with
\* the result of its item; anonymous items never appear.
C9_ResolveMapNamedOnly ==
    (/\ call.op = "ResolveMap" /\ HasGroup(call.t)
     /\ \A item \in Range(NamedOf(call.t)) : Succeeds(item)) =>
        /\ ret.err = NoError
        /\ DOMAIN ret.m = DOMAIN NamedOf(call.t)
        /\ \A name \in DOMAIN ret.m : ret.m[name] = DataOf(NamedOf(call.t)[name])

\* two named items and an anonymous one: the map holds the two named values
C9_Witness ==
    /\ call.op = "ResolveMap" /\ HasGroup("T")
    /\ Len(AnonymousOf("T")) = 1
    /\ DOMAIN NamedOf("T") = {"a", "b"}
    /\ DOMAIN ret.m = {"a", "b"}
    /\ ret.m["a"] # ret.m["b"]

\* C10: a type without a group (never registered, or removed by RemoveAll) has
\* no group until it is registered again, and until then every resolution on it
\* fails with ErrNotExist and returns no value.
C10_RemovedUntilRegistered ==
    [][\A t \in StoreInputs.lookups :
        (/\ ~HasGroup(t) \/ (call'.op = "RemoveAll" /\ call'.t = t)
         /\ ~(call'.op \in RegisterOps /\ call'.t = t)) =>
            /\ typeKey(t) \notin DOMAIN groups'
            /\ (call'.op \in ResolveOps /\ call'.t = t) =>
                    /\ IsErr(ret'.err, "ErrNotExist")
                    /\ ret'.data = Nil /\ ret'.all = <<>> /\ ret'.m = <<>>]_vars

\* ResolveAll failed with ErrNotExist on a type whose three registrations,
\* one of them resolved before, were removed
C10_Witness ==
    /\ call.op = "ResolveAll" /\ call.t = "T"
    /\ nextId = 4 /\ calls[1] > 0
    /\ ~HasGroup("T")
    /\ IsErr(ret.err, "ErrNotExist") /\ ret.all = <<>>

-----------------------------------------------------------------------------
(* Claims about lifetimes, checked under SpecLifetime, where every         *)
(* delegate returns a fresh non-nil object and no error each time it runs. *)

\* the items of the group of t that the resolution op (with name) gets to
Reached(gs, op, t, name) ==
    IF typeKey(t) \notin DOMAIN gs THEN {}
    ELSE LET g == gs[typeKey(t)] IN
         CASE op = "Resolve" ->
                IF Len(g.items) > 0 THEN {g.items[Len(g.items)]}
                ELSE IF Cardinality(DOMAIN g.namedItems) = 1 THEN Range(g.namedItems)
                ELSE {}
           [] op = "ResolveByName" ->
                IF name \in DOMAIN g.namedItems THEN {g.namedItems[name]} ELSE {}
           [] op = "ResolveAll" -> Range(g.items) \cup Range(g.namedItems)
           [] op = "ResolveMap" -> Range(g.namedItems)
           [] OTHER -> {}

\* every value the last call returned
Returned == {ret.data} \cup Range(ret.all) \cup Range(ret.m)

\* C3: the factory of a Static registration that returns a non-nil value and
\* no error is invoked once over all the Resolve, ResolveByName, ResolveAll and
\* ResolveMap calls that reach the item, and each of them yields the instance
\* the first invocation produced.
C3_StaticInvokedOnce ==
    /\ \A t \in DOMAIN groups : \A item \in ItemsOf(t) :
            item.option.lifetime = LifetimeStatic => calls[item.id] <= 1
    /\ \A item \in Reached(groups, call.op, call.t, call.name) :
            item.option.lifetime = LifetimeStatic =>
                /\ calls[item.id] = 1
                /\ Object(item.id, 1) \in Returned
                /\ \A v \in Returned : (v.k = "object" /\ v.id = item.id) => v.n = 1

\* the second ResolveAll over a PerRequest item and a Static one returned the
\* second object of the first and again the first object of the second
C3_Witness ==
    /\ call.op = "ResolveAll" /\ HasGroup("T")
    /\ Len(AnonymousOf("T")) = 2 /\ DOMAIN NamedOf("T") = {}
    /\ AnonymousOf("T")[1].option.lifetime = LifetimePerRequest
    /\ AnonymousOf("T")[2].option.lifetime = LifetimeStatic
    /\ calls[AnonymousOf("T")[1].id] = 2
    /\ calls[AnonymousOf("T")[2].id] = 1
    /\ ret.all = <<Object(AnonymousOf("T")[1].id, 2), Object(AnonymousOf("T")[2].id, 1)>>

\* C4: a PerRequest registration memoizes nothing: every resolution that
\* reaches the item invokes its factory exactly once more.
C4_PerRequestInvokedEachTime ==
    [][\A item \in Reached(groups, call'.op, call'.t, call'.name) :
        (call'.op \in ResolveOps /\ item.option.lifetime = LifetimePerRequest) =>
            /\ calls'[item.id] = calls[item.id] + 1
            /\ item.data = Nil /\ item.err = NoError
            /\ Object(item.id, calls'[item.id]) \in {ret'.data} \cup Range(ret'.all)
                                                      \cup Range(ret'.m)]_vars

\* the third resolution of a PerRequest item returned its third object
C4_Witness ==
    /\ call.op = "ResolveByName" /\ HasGroup("T")
    /\ "a" \in DOMAIN NamedOf("T")
    /\ NamedOf("T")["a"].option.lifetime = LifetimePerRequest
    /\ calls[NamedOf("T")["a"].id] = 3
    /\ ret.data = Object(NamedOf("T")["a"].id, 3)

-----------------------------------------------------------------------------
(* Claims about the cache, checked under SpecCache.                        *)

\* the Static items of the container whose delegate returns an error
StaticFailing ==
    {item \in UNION {ItemsOf(t) : t \in DOMAIN groups} :
        item.option.lifetime = LifetimeStatic /\ item.option.resolver.fails}

\* C12: a Static registration whose factory fails memoizes the failure: the
\* factory is never invoked a second time, and every resolution that gets to
\* the item after the failure returns that same error.
C12_StaticFailureMemoized ==
    /\ \A item \in StaticFailing :
            /\ calls[item.id] <= 1
            /\ calls[item.id] = 1 => item.err = FactoryError(item.id)
    /\ (/\ call.op = "Resolve" /\ HasGroup(call.t) /\ Len(AnonymousOf(call.t)) > 0
        /\ LatestAnonymous(call.t) \in StaticFailing) =>
            /\ calls[LatestAnonymous(call.t).id] = 1
            /\ ret.err = FactoryError(LatestAnonymous(call.t).id)
    /\ (/\ call.op = "ResolveAll" /\ HasGroup(call.t)
        /\ \A item \in ItemsOf(call.t) : item \in StaticFailing \/ Succeeds(item)
        /\ ItemsOf(call.t) \cap StaticFailing # {}) =>
            /\ ret.all = <<>>
            /\ \E item \in ItemsOf(call.t) \cap StaticFailing :
                    calls[item.id] = 1 /\ ret.err = FactoryError(item.id)

\* ResolveAll has twice visited the PerRequest item named "a", which no other
\* call reaches, and after it the Static item whose factory fails: the factory
\* ran once and the second ResolveAll returned its error
C12_Witness ==
    /\ call.op = "ResolveAll" /\ HasGroup("T")
    /\ Len(AnonymousOf("T")) = 1 /\ DOMAIN NamedOf("T") = {"a"}
    /\ AnonymousOf("T")[1] \in StaticFailing
    /\ Succeeds(NamedOf("T")["a"])
    /\ calls[NamedOf("T")["a"].id] = 2
    /\ calls[AnonymousOf("T")[1].id] = 1
    /\ ret.err = FactoryError(AnonymousOf("T")[1].id) /\ ret.all = <<>>

\* C13: the factory of a Static registration is invoked at most once for the
\* life of the registration, whatever its first invocation returned, a nil
\* value with no error included.
C13_StaticInvokedAtMostOnce ==
    \A t \in DOMAIN groups : \A item \in ItemsOf(t) :
        item.option.lifetime = LifetimeStatic => calls[item.id] <= 1

\* the item allocated by the registration performed last
JustRegistered == CHOOSE item \in ItemsOf(call.t) : item.id = nextId - 1

\* the options of the list that set the lifetime, and the lifetime set last
LifetimeSetters(options) == {i \in DOMAIN options : options[i].set = "lifetime"}
LastLifetime(options) ==
    options[CHOOSE i \in LifetimeSetters(options) :
                \A j \in LifetimeSetters(options) : j <= i].lifetime
NameSetters(options) == {i \in DOMAIN options : options[i].set = "name"}
LastName(options) ==
    IF NameSetters(options) = {} THEN ""
    ELSE options[CHOOSE i \in NameSetters(options) :
                     \A j \in NameSetters(options) : j <= i].name

\* C5: a registration made with no lifetime option, in a container built with
\* no default lifetime, has PerRequest lifetime: its factory runs again on
\* every resolution.
C5_UnsetLifetimeIsPerRequest ==
    (/\ call.op = "RegisterDynamic" /\ defaultOptions = <<>>
     /\ LifetimeSetters(call.options) = {}) =>
        LET orders == CHOOSE o \in OrdersOf(groups) : TRUE
            first  == resolve(JustRegistered, groups, calls, orders)
            second == resolve(first.item, first.groups, first.calls, orders)
        IN  /\ JustRegistered.option.lifetime = LifetimePerRequest
            /\ second.calls[JustRegistered.id] = 2
            /\ second.data # first.data

\* C6: the options of a registration are the container's default options
\* applied first and the options of the call applied second, each in the
\* order given, the last setter of a field winning: a lifetime passed to the
\* call overrides the default lifetime, and the default lifetime applies to a
\* registration that passes none.
C6_DefaultsThenOverrides ==
    (call.op = "RegisterDynamic") =>
        LET o == JustRegistered.option IN
        /\ o.name = LastName(call.options)
        /\ IF o.name = ""
           THEN JustRegistered \in Range(AnonymousOf(call.t))
           ELSE NamedOf(call.t)[o.name] = JustRegistered
        /\ LifetimeSetters(call.options) # {} =>
                o.lifetime = LastLifetime(call.options)
        /\ (LifetimeSetters(call.options) = {} /\ LifetimeSetters(defaultOptions) # {}) =>
                o.lifetime = LastLifetime(defaultOptions)

\* defaults ending in PerRequest, overridden by a call that sets PerRequest and
\* then Static
C6_Witness ==
    /\ call.op = "RegisterDynamic"
    /\ defaultOptions = <<WithDefaultLifetime(LifetimeStatic),
                          WithDefaultLifetime(LifetimePerRequest)>>
    /\ call.options = <<WithLifetime(LifetimePerRequest), WithLifetime(LifetimeStatic)>>
    /\ JustRegistered.option.lifetime = LifetimeStatic

-----------------------------------------------------------------------------
(* Claims about constructors, checked under SpecConstructor.               *)

\* the constructor passed to the last call
Constructor == call.delegate.constructor

\* the result shapes C14 names: no result, a second result that is not an
\* error, more than two results
InvalidShape(f) ==
    \/ Len(f.outs) = 0
    \/ Len(f.outs) = 2 /\ ~ImplementsError(f.outs[2])
    \/ Len(f.outs) > 2

\* C14: RegisterConstructor(f) returns a validation error and leaves the
\* container as it was when f declares no result, two results of which the
\* second does not implement error, or more than two results.
C14_InvalidConstructorRejected ==
    [][(call'.op = "RegisterConstructor" /\ InvalidShape(call'.delegate.constructor)) =>
        /\ IsErr(ret'.err, "ValidationError")
        /\ groups' = groups
        /\ defaultOptions' = defaultOptions
        /\ calls' = calls
        /\ nextId' = nextId]_vars

\* func() (T, U) was rejected by a container that holds items of T and of U
C14_Witness ==
    /\ call.op = "RegisterConstructor" /\ Constructor.outs = <<"T", "U">>
    /\ IsErr(ret.err, "ValidationError")
    /\ HasGroup("T") /\ HasGroup("U")
    /\ nextId = 3

\* C15: RegisterConstructor of a function whose only result is an error fails
\* with a validation error and creates no entry in the container.
C15_OnlyErrorRejected ==
    (call.op = "RegisterConstructor" /\ Constructor.outs = <<"error">>) =>
        /\ IsErr(ret.err, "ValidationError")
        /\ ~HasGroup("error")

\* the item Resolve(t) resolves in gs, when t has a group
Chosen(gs, t) == CHOOSE item \in Reached(gs, "Resolve", t, "") : TRUE

\* C16: RegisterConstructor(f, opts) with a valid f adds one item, carrying
\* opts and the closure that invokes f, to the group of f's first result type,
\* changes no other group and does not run f; f runs when the item is resolved,
\* and only then, with the argument that Resolve on its parameter type yields
\* at that moment.
C16_ConstructorRegisteredThenInvoked ==
    [][/\ (call'.op = "RegisterConstructor" /\ ~InvalidShape(call'.delegate.constructor)) =>
            LET key  == typeKey(call'.delegate.constructor.outs[1])
                o    == applyOptions(applyOptions(registrationOption(key, call'.delegate),
                                                  defaultOptions), call'.options)
                item == containerItem(nextId, o)
                old  == IF key \in DOMAIN groups THEN groups[key] ELSE containerItemGroup
            IN  /\ ret'.err = NoError
                /\ DOMAIN groups' = DOMAIN groups \cup {key}
                /\ \A other \in DOMAIN groups \ {key} : groups'[other] = groups[other]
                /\ IF o.name = ""
                   THEN /\ groups'[key].items = Append(old.items, item)
                        /\ groups'[key].namedItems = old.namedItems
                   ELSE /\ groups'[key].items = old.items
                        /\ groups'[key].namedItems = MapPut(old.namedItems, o.name, item)
                /\ item.option.resolver.constructor = call'.delegate.constructor
                /\ calls' = calls
       /\ (call'.op = "Resolve" /\ call'.t = "U" /\ HasGroup("T")) =>
            \A item \in ItemsOf("T") : calls'[item.id] = calls[item.id]
       /\ (/\ call'.op = "Resolve" /\ call'.t = "T" /\ HasGroup("T")
           /\ Chosen(groups, "T").option.resolver.constructor.ins = <<Plain("U")>>) =>
            LET item == Chosen(groups, "T") IN
            IF HasGroup("U")
            THEN /\ calls'[item.id] = calls[item.id] + 1
                 /\ ret'.err = NoError
                 /\ ret'.data = Built(item.id, calls'[item.id],
                                      <<One(Chosen(groups, "U").option.resolver.given)>>)
            ELSE /\ calls'[item.id] = calls[item.id]
                 /\ ret'.err = ErrNotExist("U") /\ ret'.data = Nil]_vars

\* func(u U) T was registered first and the instance of U second: Resolve(T)
\* ran the constructor, for the first time, with that instance
C16_Witness ==
    /\ call.op = "Resolve" /\ call.t = "T" /\ HasGroup("T") /\ HasGroup("U")
    /\ Len(AnonymousOf("T")) = 1 /\ Len(AnonymousOf("U")) = 1
    /\ AnonymousOf("T")[1].id = 1
    /\ AnonymousOf("U")[1].id = 2
    /\ calls[1] = 1
    /\ ret.data = Built(1, 1, <<One(Instance(2))>>) /\ ret.err = NoError

-----------------------------------------------------------------------------
(* Claims about Invoke, checked under SpecInvoke, where every item is an   *)
(* instance or a factory that fails, and the invoked functions return no   *)
(* error.                                                                  *)

\* what Resolve(t) returns in the groups gs: the type has no group, or the
\* item it resolves fails, or it yields the instance registered
ResolveErr(gs, t) ==
    IF typeKey(t) \notin DOMAIN gs THEN ErrNotExist(typeKey(t))
    ELSE IF Chosen(gs, t).option.resolver.fails THEN FactoryError(Chosen(gs, t).id)
    ELSE NoError
ResolveData(gs, t) == Chosen(gs, t).option.resolver.given

\* the sequences ResolveAll(t) may return when every item of t is an instance:
\* the named instances in some order, then the anonymous ones as registered
AllInstances(gs, t) ==
    LET g == gs[typeKey(t)] IN
    {[i \in 1..Len(order) |-> g.namedItems[order[i]].option.resolver.given]
        \o [j \in 1..Len(g.items) |-> g.items[j].option.resolver.given] :
     order \in Orders(g.namedItems)}

\* the function passed to the Invoke of the step
Invoked(f) == call'.op = "Invoke" /\ call'.delegate.constructor = f

\* C17: Invoke binds every parameter that is neither a sequence nor a
\* string-keyed map to the value Resolve yields for its type, passes the
\* arguments in declaration order, runs the function once and returns its
\* first result with no error.
C17_PlainParametersResolvedInOrder ==
    [][(/\ Invoked(FuncPlain)
        /\ ResolveErr(groups, "D") = NoError /\ ResolveErr(groups, "S") = NoError) =>
            /\ calls'[0] = calls[0] + 1
            /\ ret'.err = NoError
            /\ ret'.data = Built(0, calls'[0], <<One(ResolveData(groups, "D")),
                                                 One(ResolveData(groups, "S"))>>)]_vars

\* S was registered first and D second: func(d D, s S) was called with the
\* instance of D, then the instance of S
C17_Witness ==
    /\ call.op = "Invoke" /\ Constructor = FuncPlain
    /\ ret.err = NoError
    /\ ret.data = Built(0, 1, <<One(Instance(2)), One(Instance(1))>>)

\* C18: when the resolution of a parameter fails, Invoke returns that error,
\* the first in declaration order, the function is not run and no later
\* parameter is resolved.
C18_FailedParameterAbortsInvoke ==
    [][/\ (call'.op = "Invoke" /\ ret'.err # NoError) =>
            calls'[0] = calls[0] /\ ret'.data = Nil
       /\ (Invoked(FuncPlain) /\ ResolveErr(groups, "D") # NoError) =>
            /\ ret'.err = ResolveErr(groups, "D")
            /\ HasGroup("S") =>
                    /\ groups'["S"] = groups["S"]
                    /\ \A item \in ItemsOf("S") : calls'[item.id] = calls[item.id]
       /\ (/\ Invoked(FuncPlain)
           /\ ResolveErr(groups, "D") = NoError /\ ResolveErr(groups, "S") # NoError) =>
            ret'.err = ResolveErr(groups, "S")
       /\ ((Invoked(FuncSlice) \/ Invoked(FuncVariadic)) /\ ~HasGroup("D")) =>
            ret'.err = ErrNotExist("D")
       /\ ((Invoked(FuncSlice) \/ Invoked(FuncVariadic)) /\ HasGroup("D")) =>
            (ret'.err # NoError <=> \E item \in ItemsOf("D") : ~Succeeds(item))]_vars

\* func(d D, s S) was invoked with a failing factory registered as D and an
\* instance as S: Invoke returned the factory's error, the function did not
\* run and the instance of S was never resolved
C18_Witness ==
    /\ call.op = "Invoke" /\ Constructor = FuncPlain
    /\ HasGroup("D") /\ HasGroup("S")
    /\ Len(AnonymousOf("D")) = 1 /\ Len(AnonymousOf("S")) = 1
    /\ ~Succeeds(AnonymousOf("D")[1])
    /\ Succeeds(AnonymousOf("S")[1])
    /\ calls[AnonymousOf("S")[1].id] = 0
    /\ calls[0] = 0
    /\ ret.err = FactoryError(AnonymousOf("D")[1].id) /\ ret.data = Nil

\* C19: a slice parameter that is not variadic is passed as one slice holding
\* the ResolveAll results of its element type, in the order of ResolveAll.
C19_SliceParameterGetsResolveAll ==
    [][(/\ Invoked(FuncSlice) /\ HasGroup("D")
        /\ \A item \in ItemsOf("D") : Succeeds(item)) =>
            /\ ret'.err = NoError
            /\ calls'[0] = calls[0] + 1
            /\ \E all \in AllInstances(groups, "D") :
                    /\ Len(all) = Cardinality(ItemsOf("D"))
                    /\ ret'.data = Built(0, calls'[0], <<Slice(all)>>)
                    /\ \E orders \in OrdersOf(groups) :
                            ResolveAll(groups, calls, "D", orders).all = all]_vars

\* two anonymous instances of D: func(ds []D) got one slice of the two, in
\* registration order
C19_Witness ==
    /\ call.op = "Invoke" /\ Constructor = FuncSlice
    /\ HasGroup("D") /\ Len(AnonymousOf("D")) = 2 /\ DOMAIN NamedOf("D") = {}
    /\ ret.data = Built(0, 1, <<Slice(<<Instance(1), Instance(2)>>)>>)

\* C20: the last parameter of a variadic function is passed as one argument for
\* each ResolveAll result of its element type, in the order of ResolveAll; a
\* slice parameter before it is passed as one slice.
C20_VariadicParameterSpread ==
    [][(/\ Invoked(FuncVariadic) /\ HasGroup("D")
        /\ \A item \in ItemsOf("D") : Succeeds(item)) =>
            /\ ret'.err = NoError
            /\ calls'[0] = calls[0] + 1
            /\ \E all \in AllInstances(groups, "D") :
                    /\ Len(ret'.data.args) = 1 + Cardinality(ItemsOf("D"))
                    /\ ret'.data = Built(0, calls'[0],
                                         <<Slice(all)>> \o [j \in 1..Len(all) |-> One(all[j])])
                    /\ \E orders \in OrdersOf(groups) :
                            ResolveAll(groups, calls, "D", orders).all = all]_vars

\* a named and an anonymous instance of D: func(ds []D, more ...D) got the
\* slice of the two and then each of them as an argument of its own
C20_Witness ==
    /\ call.op = "Invoke" /\ Constructor = FuncVariadic
    /\ HasGroup("D") /\ Len(AnonymousOf("D")) = 1 /\ DOMAIN NamedOf("D") = {"a"}
    /\ AnonymousOf("D")[1].id = 1
    /\ ret.data = Built(0, 1, <<Slice(<<Instance(2), Instance(1)>>),
                                One(Instance(2)), One(Instance(1))>>)

-----------------------------------------------------------------------------
(* Claims about map parameters, checked under SpecMap, where every item    *)
(* resolves without error, to the instance registered or to nil.           *)

\* C21: Invoke passes to a parameter of type map[string]D a map whose keys are
\* exactly the names registered under D, each with the result of its named
\* item; the anonymous items of D are left out.
C21_MapParameterNamedOnly ==
    (call.op = "Invoke" /\ Constructor = FuncMap /\ HasGroup("D")) =>
        /\ ret.err = NoError
        /\ ret.data.k = "built"
        /\ Len(ret.data.args) = 1
        /\ ret.data.args[1].k = "map"
        /\ DOMAIN ret.data.args[1].m = DOMAIN NamedOf("D")
        /\ \A name \in DOMAIN NamedOf("D") :
                ret.data.args[1].m[name] = NamedOf("D")[name].option.resolver.given

-----------------------------------------------------------------------------
(* Claims about the results of Invoke, checked under SpecResult.           *)

\* the first result of the function f on its run counted last in cs[0]
FirstResult(f, cs, args) ==
    CASE f.yields = "new"  -> Built(0, cs[0], args)
      [] f.yields = "zero" -> Zero
      [] OTHER             -> Nil

\* C22: Invoke on a function with one result returns that result and no
\* error; on a function with a result and an error it returns the error when
\* the function returns one, and the first result next to it all the same.
C22_InvokeNormalisesResults ==
    (call.op = "Invoke" /\ Constructor.kind = "func" /\ Constructor.ins = <<>>) =>
        /\ Len(Constructor.outs) = 1 =>
                /\ ret.data = FirstResult(Constructor, calls, <<>>)
                /\ ret.err = NoError
        /\ (Len(Constructor.outs) = 2 /\ ImplementsError(Constructor.outs[2])) =>
                /\ ret.data = FirstResult(Constructor, calls, <<>>)
                /\ ret.err = IF Constructor.fails THEN FactoryError(0) ELSE NoError

\* the second run of a func() (T, error) that returns a value and an error:
\* Invoke returned both
C22_Witness ==
    /\ call.op = "Invoke" /\ Constructor = FuncTwoFails
    /\ calls[0] = 2
    /\ ret.data = Built(0, 2, <<>>)
    /\ ret.err = FactoryError(0)

\* C23: Invoke and RegisterConstructor return a validation error for a
\* delegate that is not a function (an integer, a struct value, a pointer,
\* nil): they do not panic, nothing is resolved or run, and the container is
\* left as it was.
C23_NotFunctionRejected ==
    [][(/\ call'.op \in {"Invoke", "RegisterConstructor"}
        /\ call'.delegate.constructor.kind # "func") =>
            /\ IsErr(ret'.err, "ValidationError")
            /\ ret'.data = Nil
            /\ groups' = groups
            /\ defaultOptions' = defaultOptions
            /\ calls' = calls
            /\ nextId' = nextId]_vars

\* C24: Invoke accepts a function that declares no result: when its parameter
\* resolves, the function runs once, with the value Resolve yields for the
\* parameter's type, and Invoke returns nil and no error; RegisterConstructor
\* rejects the same function.
C24_NoResultFunctionInvoked ==
    [][/\ (Invoked(FuncNone) /\ ResolveErr(groups, "D") = NoError) =>
            /\ calls'[0] = calls[0] + 1
            /\ ret'.data = Nil
            /\ ret'.err = NoError
            /\ \A orders \in OrdersOf(groups) :
                    resolveParameters(groups, calls, FuncNone, 1, <<>>, orders).values
                        = <<One(ResolveData(groups, "D"))>>
       /\ (Invoked(FuncNone) /\ ResolveErr(groups, "D") # NoError) =>
            /\ calls'[0] = calls[0]
            /\ ret'.err = ResolveErr(groups, "D")
       /\ (call'.op = "RegisterConstructor" /\ call'.delegate.constructor = FuncNone) =>
            /\ IsErr(ret'.err, "ValidationError")
            /\ groups' = groups]_vars

\* func(d D) ran once on a container that holds two instances of D, and Invoke
\* returned nil and no error
C24_Witness ==
    /\ call.op = "Invoke" /\ Constructor = FuncNone
    /\ HasGroup("D") /\ Len(AnonymousOf("D")) = 2
    /\ calls[0] = 1
    /\ ret.data = Nil /\ ret.err = NoError

-----------------------------------------------------------------------------
(* Claims about Inject, checked under SpecInject, where every item is      *)
(* anonymous and is an instance or a factory that fails.                   *)

\* the runs counted for the item Resolve(t) resolves, after k calls of
\* Resolve(t): a PerRequest item runs each time, a Static item the first time
RunsAfter(gs, cs, t, k) ==
    LET item == Chosen(gs, t) IN
    IF k = 0 THEN cs[item.id]
    ELSE IF item.option.lifetime = LifetimePerRequest THEN cs[item.id] + k
    ELSE IF cs[item.id] = 0 THEN 1 ELSE cs[item.id]

\* the step leaves the run counts as k[t] calls of Resolve(t) for every type t
\* leave them: no other item has run
ResolvedTimes(k) ==
    \A t \in DOMAIN groups : \A item \in ItemsOf(t) :
        calls'[item.id] = IF item = Chosen(groups, t)
                          THEN RunsAfter(groups, calls, t, k[t])
                          ELSE calls[item.id]

\* the step is Inject on Target
Injected == call'.op = "Inject" /\ call'.target = Target

\* C25: Inject sets each exported field that carries the inject tag to the
\* value Resolve yields for the field's type; it resolves no field without the
\* tag and no tagged field that is not exported, leaves these fields as they
\* were, and returns no error.
C25_TaggedSettableFieldsInjected ==
    [][(/\ Injected
        /\ ResolveErr(groups, "A") = NoError /\ ResolveErr(groups, "B") = NoError) =>
            /\ ret'.err = NoError
            /\ ret'.fields = <<ResolveData(groups, "A"), Previous(2), Previous(3),
                               ResolveData(groups, "B"), ResolveData(groups, "A")>>
            /\ \A i \in 1..Len(TargetFields) :
                    (TargetFields[i].tagged /\ TargetFields[i].exported) =>
                        ret'.fields[i] = ResolveData(groups, TargetFields[i].type)
            /\ \A i \in 1..Len(TargetFields) :
                    ~(TargetFields[i].tagged /\ TargetFields[i].exported) =>
                        ret'.fields[i] = Target.values[i]
            /\ ResolvedTimes([t \in DOMAIN groups |->
                                CASE t = "A" -> 2 [] t = "B" -> 1 [] OTHER -> 0])]_vars

\* Inject on a container whose items of A, C and B are PerRequest instances:
\* the item of A ran twice, the item of B once, the item of C never, and the
\* fields of type C are as before
C25_Witness ==
    /\ call.op = "Inject" /\ ret.err = NoError
    /\ HasGroup("A") /\ HasGroup("B") /\ HasGroup("C")
    /\ AnonymousOf("A")[1].id = 1 /\ AnonymousOf("C")[1].id = 2 /\ AnonymousOf("B")[1].id = 3
    /\ AnonymousOf("A")[1].option.lifetime = LifetimePerRequest
    /\ calls = [id \in Nested..MaxRegs |-> CASE id = 1 -> 2 [] id = 3 -> 1 [] OTHER -> 0]
    /\ ret.fields = <<Instance(1), Previous(2), Previous(3), Instance(3), Instance(1)>>

\* C26: when Resolve fails for a tagged field, Inject returns that error at
\* once: the fields set before it keep the values assigned, the failing field
\* and the fields after it are as before, and no field after it is resolved.
C26_InjectStopsAtFirstFailure ==
    [][/\ (Injected /\ ResolveErr(groups, "A") # NoError) =>
            /\ ret'.err = ResolveErr(groups, "A")
            /\ ret'.fields = Target.values
            /\ ResolvedTimes([t \in DOMAIN groups |-> IF t = "A" THEN 1 ELSE 0])
       /\ (/\ Injected
           /\ ResolveErr(groups, "A") = NoError /\ ResolveErr(groups, "B") # NoError) =>
            /\ ret'.err = ResolveErr(groups, "B")
            /\ ret'.fields = <<ResolveData(groups, "A"), Previous(2), Previous(3),
                               Previous(4), Previous(5)>>
            /\ ResolvedTimes([t \in DOMAIN groups |->
                                IF t \in {"A", "B"} THEN 1 ELSE 0])]_vars

\* Inject on a container that holds a PerRequest instance of A and a failing
\* factory of B: First was set, Inject returned the factory's error, and the
\* item of A ran once, not twice: Last was not resolved
C26_Witness ==
    /\ call.op = "Inject"
    /\ HasGroup("A") /\ HasGroup("B")
    /\ AnonymousOf("A")[1].id = 1 /\ AnonymousOf("B")[1].id = 2
    /\ AnonymousOf("A")[1].option.lifetime = LifetimePerRequest
    /\ calls[1] = 1 /\ calls[2] = 1
    /\ ret.err = FactoryError(2)
    /\ ret.fields = <<Instance(1), Previous(2), Previous(3), Previous(4), Previous(5)>>

-----------------------------------------------------------------------------
(* Claims about concurrent callers, checked under SpecRace.                *)

\* the thread is inside resolve on the item
Resolving(th, item) ==
    /\ threads[th].pc # "idle"
    /\ threads[th].key \in DOMAIN groups
    /\ threads[th].place # Indexed(0)
    /\ itemOf(th).id = item.id

\* the objects the resolver of the item has produced
Produced(item) == {Object(item.id, n) : n \in 1..calls[item.id]}

\* C27: without a lock, two threads that resolve the same Static item may each
\* run its factory: the factory runs at most once for each thread, not at
\* most once; each thread returns an object some run produced, which may
\* differ from thread to thread, and once the writes are done the cache holds
\* one of these objects.
C27_StaticRaceInvokesTwice ==
    \A t \in DOMAIN groups : \A item \in ItemsOf(t) :
        item.option.lifetime = LifetimeStatic =>
            /\ calls[item.id] <= Cardinality(Threads)
            /\ \A th \in Threads :
                    (/\ Resolving(th, item) /\ threads[th].pc = "done"
                     /\ threads[th].err = NoError) =>
                        threads[th].data \in Produced(item) \cup {TypedNil}
            /\ (/\ calls[item.id] >= 1
                /\ \A th \in Threads :
                        Resolving(th, item) =>
                            threads[th].pc \notin {"store", "stored"}) =>
                    item.data \in Produced(item)

\* the two threads have resolved the same Static item: its factory ran twice,
\* the first thread returns the first object and the second thread the
\* second, and the cache holds the first, which was written last
C27_Witness ==
    /\ HasGroup("T") /\ Len(AnonymousOf("T")) = 1
    /\ AnonymousOf("T")[1].option.lifetime = LifetimeStatic
    /\ \A th \in Threads : threads[th].pc = "done" /\ threads[th].key = "T"
    /\ calls[1] = 2
    /\ threads[1].data = Object(1, 1)
    /\ threads[2].data = Object(1, 2)
    /\ AnonymousOf("T")[1].data = Object(1, 1)

-----------------------------------------------------------------------------
(* Claims about isolation, checked under SpecIsolation.                    *)

\* the type the registration or removal of the step is applied to
Applied ==
    IF call'.op = "RegisterConstructor" THEN call'.delegate.constructor.outs[1] ELSE call'.t

\* the item is a constructor with a parameter of a type whose key is key
DependsOn(item, key) ==
    /\ item.option.resolver.yields = "invoke"
    /\ \E i \in DOMAIN item.option.resolver.constructor.ins :
            typeKey(item.option.resolver.constructor.ins[i].name) = key

\* what the four resolutions on u return in the groups gs
Outcomes(gs, cs, u, orders) ==
    LET one   == Resolve(gs, cs, u, orders)
        named == ResolveByName(gs, cs, u, "a", orders)
        all   == ResolveAll(gs, cs, u, orders)
        map   == ResolveMap(gs, cs, u, orders)
    IN  <<one.data, one.err, named.data, named.err, all.all, all.err, map.m, map.err>>

\* C28: a registration, a replacement or RemoveAll applied to a type changes
\* the group of that type's key and no other: every other group keeps its
\* items and what they have memoized, nothing is run, and every resolution on
\* a type with another key, none of whose items takes a parameter of the
\* changed key, returns what it would have returned before; RemoveAll on a
\* type that has no group changes nothing.
C28_IsolatedByTypeKey ==
    [][(call'.op \in RegisterOps \cup {"RegisterConstructor", "RemoveAll"}) =>
        LET key == typeKey(Applied) IN
        /\ DOMAIN groups' \ {key} = DOMAIN groups \ {key}
        /\ \A other \in DOMAIN groups \ {key} : groups'[other] = groups[other]
        /\ calls' = calls
        /\ \A u \in IsolationInputs.lookups :
                (/\ typeKey(u) # key
                 /\ HasGroup(u) => \A item \in ItemsOf(u) : ~DependsOn(item, key)) =>
                    \A before \in OrdersOf(groups), after \in OrdersOf(groups') :
                        Outcomes(groups', calls', u, after) = Outcomes(groups, calls, u, before)
        /\ (call'.op = "RemoveAll" /\ key \notin DOMAIN groups) => groups' = groups]_vars

\* the registrations of X were replaced while the group of U held an item
\* that had been resolved: the item of U still holds the object it memoized
C28_Witness ==
    /\ call.op = "ReplaceDynamic" /\ call.t = "a/pkg.X"
    /\ HasGroup("U") /\ HasGroup("b/pkg.X")
    /\ Len(AnonymousOf("U")) = 1
    /\ AnonymousOf("U")[1].id = 2
    /\ AnonymousOf("U")[1].data = Object(2, 1)
    /\ Len(AnonymousOf("a/pkg.X")) = 1
    /\ AnonymousOf("a/pkg.X")[1].id = 3

-----------------------------------------------------------------------------
(* Claims about names, checked under SpecName.                             *)

\* every item of gs is in the sequence of its group and has no name, or is in
\* the mapping under its own name, which is not empty, and no item is in both
WellPlaced(gs) ==
    \A key \in DOMAIN gs :
        LET g == gs[key] IN
        /\ \A i \in DOMAIN g.items : g.items[i].option.name = ""
        /\ \A name \in DOMAIN g.namedItems :
                name # "" /\ g.namedItems[name].option.name = name
        /\ \A i \in DOMAIN g.items : \A name \in DOMAIN g.namedItems :
                g.items[i].id # g.namedItems[name].id

\* C29: in every state the container reaches, every item is either in the
\* anonymous sequence of its group, with an empty name, or in the named
\* mapping under its own non-empty name, never in both; a registration whose
\* options end with WithName("") leaves the groups as the same registration
\* without options leaves them.
C29_AnonymousOrNamed ==
    [][/\ WellPlaced(groups')
       /\ (/\ call'.op \in {"RegisterInstance", "RegisterDynamic"}
           /\ LastName(call'.options) = "") =>
            groups' = RegisterDynamic(groups, defaultOptions, nextId, call'.t,
                                      call'.delegate, <<>>)
       /\ (call'.op = "ReplaceInstance" /\ LastName(call'.options) = "") =>
            groups' = ReplaceDynamic(groups, defaultOptions, nextId, call'.t,
                                     call'.delegate, <<>>)]_vars

\* the third registration passed WithName("a") and then WithName(""): its item
\* is the second of the anonymous sequence, next to the item named a
C29_Witness ==
    /\ call.op = "RegisterInstance" /\ call.options = <<WithName("a"), WithName("")>>
    /\ HasGroup("T")
    /\ DOMAIN NamedOf("T") = {"a"}
    /\ Len(AnonymousOf("T")) = 2
    /\ AnonymousOf("T")[2].id = 3
    /\ AnonymousOf("T")[2].option.name = ""

\* the lengths of what ResolveAll(t) returns in gs when it succeeds
AllLengths(gs, cs, t) ==
    {Len(ResolveAll(gs, cs, t, orders).all) :
        orders \in {o \in OrdersOf(gs) : ResolveAll(gs, cs, t, o).err = NoError}}

\* the lengths of what ResolveAll(t) returns in gs, with or without an error
ReturnedLengths(gs, cs, t) ==
    {Len(ResolveAll(gs, cs, t, orders).all) : orders \in OrdersOf(gs)}

\* the registration was under a name that its type already had
RegisteredAgain ==
    /\ call'.op \in {"RegisterInstance", "RegisterDynamic"}
    /\ HasGroup(call'.t)
    /\ LastName(call'.options) # ""
    /\ LastName(call'.options) \in DOMAIN groups[typeKey(call'.t)].namedItems

\* a registration under a name that the type already has puts the new item
\* under the name and leaves the other names and the anonymous sequence as
\* they were, and ResolveByName on the name yields the result of the new
\* registration; an anonymous registration appends one item to the anonymous
\* sequence and leaves the named mapping as it was
ReplacedOrAppended ==
    LET t    == call'.t
        name == LastName(call'.options)
        old  == IF HasGroup(t) THEN groups[typeKey(t)] ELSE containerItemGroup
        new  == groups'[typeKey(t)]
    IN  /\ RegisteredAgain =>
                /\ new.items = old.items
                /\ DOMAIN new.namedItems = DOMAIN old.namedItems
                /\ \A other \in DOMAIN old.namedItems \ {name} :
                        new.namedItems[other] = old.namedItems[other]
                /\ new.namedItems[name].id = nextId
                /\ new.namedItems[name] # old.namedItems[name]
                /\ \A orders \in OrdersOf(groups') :
                        LET r == ResolveByName(groups', calls', t, name, orders) IN
                        /\ r.data = call'.delegate.given
                        /\ r.err = IF call'.delegate.fails
                                   THEN FactoryError(nextId) ELSE NoError
        /\ name = "" =>
                /\ new.items = Append(old.items, containerItem(nextId,
                        registrationOption(typeKey(t), call'.delegate)))
                /\ Len(new.items) = Len(old.items) + 1
                /\ new.namedItems = old.namedItems

\* C30, as stated: a registration under a name that the type already has
\* replaces the item of that name and nothing else: the names and the
\* anonymous sequence of the type are as before, ResolveByName on the name
\* yields the result of the new registration, and ResolveAll returns as many
\* values as before.  An anonymous registration appends one item to the
\* anonymous sequence and leaves the named mapping as it was.
C30_SameNameReplaces ==
    [][(call'.op \in {"RegisterInstance", "RegisterDynamic"}) =>
        /\ ReplacedOrAppended
        /\ RegisteredAgain =>
                ReturnedLengths(groups', calls', call'.t) =
                    ReturnedLengths(groups, calls, call'.t)]_vars

\* C30, amended: a registration under a name that the type already has
\* replaces the item of that name and nothing else: the names and the
\* anonymous sequence of the type are as before, ResolveByName on the name
\* yields the result of the new registration, and a ResolveAll that succeeds
\* afterwards returns one value for every item of the group, as many as a
\* ResolveAll that succeeded before; when the new registration fails,
\* ResolveAll afterwards returns no value and an error.  An anonymous
\* registration appends one item to the anonymous sequence and leaves the
\* named mapping as it was.
C30_SameNameReplacesItem ==
    [][(call'.op \in {"RegisterInstance", "RegisterDynamic"}) =>
        /\ ReplacedOrAppended
        /\ RegisteredAgain =>
                LET t   == call'.t
                    new == groups'[typeKey(t)]
                IN  /\ \A before \in AllLengths(groups, calls, t) :
                            \A after \in AllLengths(groups', calls', t) : after = before
                    /\ \A after \in AllLengths(groups', calls', t) :
                            after = Len(new.items) + Cardinality(DOMAIN new.namedItems)
                    /\ call'.delegate.fails =>
                            \A orders \in OrdersOf(groups') :
                                LET r == ResolveAll(groups', calls', t, orders) IN
                                r.err # NoError /\ r.all = <<>>]_vars

\* the name a, whose first item had been resolved, was registered again in a
\* group that also holds an anonymous item: the name now has the third item
\* and ResolveAll returns two values
C30_Witness ==
    /\ call.op = "RegisterInstance" /\ call.options = <<WithName("a")>>
    /\ HasGroup("T")
    /\ DOMAIN NamedOf("T") = {"a"}
    /\ NamedOf("T")["a"].id = 3
    /\ Len(AnonymousOf("T")) = 1
    /\ AnonymousOf("T")[1].id = 2
    /\ calls[1] = 1
    /\ AllLengths(groups, calls, "T") = {2}

-----------------------------------------------------------------------------
(* Further claims about the registration store, checked under Spec.        *)

\* C31: when the group of T holds named items and no anonymous item,
\* Resolve(T) returns the outcome of resolving one of the named items, writes
\* that item only, runs the resolver of no other item and does not fail with
\* ErrNotExist; each of the named items is one that the call may choose.
C31_ResolveSomeNamedItem ==
    [][(/\ call'.op = "Resolve" /\ HasGroup(call'.t)
        /\ AnonymousOf(call'.t) = <<>>
        /\ DOMAIN NamedOf(call'.t) # {}) =>
        LET key   == typeKey(call'.t)
            named == NamedOf(call'.t)
        IN  /\ \E name \in DOMAIN named : \A orders \in OrdersOf(groups) :
                    LET r == resolve(named[name], groups, calls, orders) IN
                    /\ ret'.data = r.data /\ ret'.err = r.err
                    /\ groups' = storeItem(groups, key, Named(name), r.item)
                    /\ calls' = r.calls
                    /\ \A id \in Ids \ {named[name].id} : calls'[id] = calls[id]
                    /\ calls'[named[name].id] - calls[named[name].id] \in {0, 1}
            /\ ~IsErr(ret'.err, "ErrNotExist")
            /\ \A name \in DOMAIN named : \E orders \in OrdersOf(groups) :
                    Resolve(groups, calls, call'.t, orders)
                        = resolveAt(groups, ranged(groups, calls, key, orders).calls,
                                    key, Named(name), orders)]_vars

\* of the two named items, none resolved before, Resolve chose the one
\* registered second and ran its resolver only
C31_Witness ==
    /\ call.op = "Resolve" /\ HasGroup("T")
    /\ AnonymousOf("T") = <<>>
    /\ DOMAIN NamedOf("T") = {"a", "b"}
    /\ NamedOf("T")["a"].id = 1 /\ NamedOf("T")["b"].id = 2
    /\ ret.data = Instance(2) /\ ret.err = NoError
    /\ calls[1] = 0 /\ calls[2] = 1

\* the items whose delegate returns an error
Failing(items) == {item \in items : ~Succeeds(item)}
\* no resolver has run more than once in the step
NoRetry == \A id \in Ids : calls'[id] <= calls[id] + 1

\* Resolve(T) returns the error of the anonymous item registered last when its
\* delegate fails, whatever the other items of T would return
ResolveDoesNotFallBack ==
    (/\ call'.op = "Resolve" /\ HasGroup(call'.t)
     /\ Len(AnonymousOf(call'.t)) > 0
     /\ ~Succeeds(LatestAnonymous(call'.t))) =>
        /\ ret'.err = FactoryError(LatestAnonymous(call'.t).id)
        /\ ret'.data = Nil
        /\ \A id \in Ids \ {LatestAnonymous(call'.t).id} : calls'[id] = calls[id]
        /\ NoRetry

\* ResolveAll(T) returns the error of a failing item and no value when an item
\* of T fails
ResolveAllIsAllOrNothing ==
    (/\ call'.op = "ResolveAll" /\ HasGroup(call'.t)
     /\ Failing(ItemsOf(call'.t)) # {}) =>
        /\ \E item \in Failing(ItemsOf(call'.t)) : ret'.err = FactoryError(item.id)
        /\ ret'.all = <<>>
        /\ NoRetry

\* ResolveMap(T) returns the error of a failing item and no value when one of
\* the given items of T fails
ResolveMapIsAllOrNothing(items) ==
    (/\ call'.op = "ResolveMap" /\ HasGroup(call'.t)
     /\ Failing(items) # {}) =>
        /\ \E item \in Failing(items) : ret'.err = FactoryError(item.id)
        /\ ret'.m = <<>>
        /\ NoRetry

\* C32, as stated: when the delegate of the anonymous item of T registered last
\* fails, Resolve(T) returns its error, and when any item of T fails, anonymous
\* or named, ResolveAll(T) and ResolveMap(T) return that error and no value.
C32_NoFallbackAnyItem ==
    [][/\ ResolveDoesNotFallBack
       /\ ResolveAllIsAllOrNothing
       /\ HasGroup(call'.t) => ResolveMapIsAllOrNothing(ItemsOf(call'.t))]_vars

\* C32, amended: when the delegate of the anonymous item of T registered last
\* fails, Resolve(T) returns its error; when any item of T fails, ResolveAll(T)
\* returns the error of a failing item and no value; when any named item of T
\* fails, ResolveMap(T) returns the error of a failing named item and no value.
\* No resolver runs twice in a call.
C32_NoFallback ==
    [][/\ ResolveDoesNotFallBack
       /\ ResolveAllIsAllOrNothing
       /\ HasGroup(call'.t) => ResolveMapIsAllOrNothing(Range(NamedOf(call'.t)))]_vars

\* ResolveAll returned the error of the failing factory registered last and no
\* value, after the instances named a and registered second had been resolved
C32_Witness ==
    /\ call.op = "ResolveAll" /\ HasGroup("T")
    /\ DOMAIN NamedOf("T") = {"a"} /\ NamedOf("T")["a"].id = 1
    /\ Len(AnonymousOf("T")) = 2
    /\ Succeeds(NamedOf("T")["a"]) /\ Succeeds(AnonymousOf("T")[1])
    /\ ~Succeeds(AnonymousOf("T")[2])
    /\ calls[1] = 1 /\ calls[2] = 1 /\ calls[3] = 1
    /\ ret.err = FactoryError(3) /\ ret.all = <<>>

\* the places of the group g: the names of namedItems and the indices of items
PlacesOf(g) == {Named(name) : name \in DOMAIN g.namedItems}
                   \cup {Indexed(i) : i \in DOMAIN g.items}

\* C33: Resolve, ResolveByName, ResolveAll and ResolveMap, failing or not,
\* leave the groups that exist, the anonymous sequence and the named mapping of
\* every group, the options of every item, and the default options as they
\* were; an item they write is a Static item of the type resolved, nothing was
\* memoized in it before, and it now holds what its resolver returned in this
\* call; when every item is PerRequest the groups are unchanged.
C33_ResolutionWritesOnlyTheCache ==
    [][(call'.op \in ResolveOps) =>
        /\ DOMAIN groups' = DOMAIN groups
        /\ defaultOptions' = defaultOptions
        /\ nextId' = nextId
        /\ \A key \in DOMAIN groups :
                LET g == groups[key]
                    h == groups'[key]
                IN  /\ Len(h.items) = Len(g.items)
                    /\ DOMAIN h.namedItems = DOMAIN g.namedItems
                    /\ \A place \in PlacesOf(g) :
                            LET old == itemAt(g, place)
                                new == itemAt(h, place)
                            IN  /\ new.id = old.id
                                /\ new.option = old.option
                                /\ new # old =>
                                        /\ old.option.lifetime = LifetimeStatic
                                        /\ key = typeKey(call'.t)
                                        /\ old.data = Nil /\ old.err = NoError
                                        /\ calls'[old.id] = calls[old.id] + 1
                                        /\ new.data = old.option.resolver.given
                                        /\ new.err = IF old.option.resolver.fails
                                                     THEN FactoryError(old.id)
                                                     ELSE NoError
        /\ (\A key \in DOMAIN groups : \A place \in PlacesOf(groups[key]) :
                itemAt(groups[key], place).option.lifetime = LifetimePerRequest) =>
                groups' = groups]_vars

\* ResolveMap has run the resolvers of the two named PerRequest items next to
\* an anonymous one, and left every item without memoized data or error
C33_Witness ==
    /\ call.op = "ResolveMap" /\ HasGroup("T")
    /\ DOMAIN NamedOf("T") = {"a", "b"} /\ Len(AnonymousOf("T")) = 1
    /\ \A item \in ItemsOf("T") :
            /\ item.option.lifetime = LifetimePerRequest
            /\ item.data = Nil /\ item.err = NoError
    /\ calls[NamedOf("T")["a"].id] = 1 /\ calls[NamedOf("T")["b"].id] = 1
    /\ DOMAIN ret.m = {"a", "b"}

-----------------------------------------------------------------------------
(* Further claims about the cache, checked under SpecCache.                *)

\* what the first run of the resolver of the item returns
FirstData(item) ==
    IF item.option.resolver.yields = "new" THEN Object(item.id, 1) ELSE Nil
FirstErr(item) ==
    IF item.option.resolver.fails THEN FactoryError(item.id) ELSE NoError

\* C34: every resolution of a Static item returns the (value, error) pair that
\* the first resolution of the item returned, also when the first run of the
\* resolver returned a non-nil value together with a non-nil error.
C34_StaticPairRepeated ==
    \A item \in Reached(groups, call.op, call.t, call.name) :
        (call.op = "Resolve" /\ item.option.lifetime = LifetimeStatic) =>
            /\ ret.data = FirstData(item)
            /\ ret.err = FirstErr(item)

-----------------------------------------------------------------------------
(* Claims about termination, checked under SpecCycle.  A call that does    *)
(* not return is one whose recursion exhausts the stack.                   *)

\* C35: every call of Resolve, ResolveByName, ResolveAll, ResolveMap, Invoke
\* and Inject returns to its caller, with a result or with an error.
C35_EveryResolutionReturns ==
    (call.op \in ResolveOps \cup {"Invoke", "Inject"}) => ret.err # StackOverflow

-----------------------------------------------------------------------------
(* Claims about dependencies, checked under SpecDependency.                *)

\* the key that resolveParameter resolves for a parameter of type p
ParameterKey(p) ==
    typeKey(IF p.kind \in {"array", "slice"} THEN p.elem
            ELSE IF p.kind = "map" /\ p.key = "string" THEN p.elem
            ELSE p.name)
\* the keys that the constructors registered under key have as parameters
Needs(gs, key) ==
    IF key \notin DOMAIN gs THEN {}
    ELSE UNION {{ParameterKey(item.option.resolver.constructor.ins[i]) :
                    i \in DOMAIN item.option.resolver.constructor.ins} :
                item \in {x \in Range(gs[key].items) \cup Range(gs[key].namedItems) :
                              x.option.resolver.yields = "invoke"}}
\* the keys reached from keys in at most n steps of Needs
RECURSIVE Reach(_, _, _)
Reach(gs, keys, n) ==
    IF n = 0 THEN keys
    ELSE Reach(gs, keys \cup UNION {Needs(gs, key) : key \in keys}, n - 1)
\* no constructor registered under a key has a parameter whose resolution
\* reaches, directly or through other constructors, a constructor of that key
Acyclic(gs) ==
    \A key \in DOMAIN gs :
        key \notin Reach(gs, Needs(gs, key), Cardinality(DOMAIN gs))

\* C36: when the dependency relation among the constructors registered is
\* acyclic, every call of Resolve, ResolveByName, ResolveAll and ResolveMap
\* returns, having run no more resolvers than there are registrations.
C36_AcyclicResolutionTerminates ==
    [][(call'.op \in ResolveOps /\ Acyclic(groups)) =>
        /\ ret'.err # StackOverflow
        /\ invocations(calls', MaxRegs) - invocations(calls, MaxRegs) <= nextId - 1]_vars

\* Resolve(T) has run the constructor of T, whose map, plain and slice
\* parameters were resolved from the two instances of U
C36_Witness ==
    /\ call.op = "Resolve" /\ call.t = "T"
    /\ Acyclic(groups)
    /\ HasGroup("U") /\ HasGroup("T")
    /\ DOMAIN NamedOf("U") = {"a"} /\ Len(AnonymousOf("U")) = 1
    /\ ret.err = NoError
    /\ ret.data.k = "built" /\ Len(ret.data.args) = 3
    /\ \A id \in Ids : calls[id] = 1

-----------------------------------------------------------------------------
(* Claims about the items of a group, checked under Spec.                  *)

\* the identities of the items of the group of key in gs
ItemIds(gs, key) ==
    IF key \notin DOMAIN gs THEN {}
    ELSE {item.id : item \in Range(gs[key].items) \cup Range(gs[key].namedItems)}
\* every group of gs holds an item
NonEmpty(gs) == \A key \in DOMAIN gs : ItemIds(gs, key) # {}
\* a group appears only in a registration of its type, with the new item in it
CreatedByRegistration ==
    \A key \in DOMAIN groups' \ DOMAIN groups :
        /\ call'.op \in RegisterOps /\ typeKey(call'.t) = key
        /\ ItemIds(groups', key) = {nextId}
\* the step deleted the whole group of key, by RemoveAll or inside a Replace
WholeGroupRemoved(key) ==
    /\ call'.op \in {"RemoveAll", "ReplaceInstance", "ReplaceDynamic"}
    /\ typeKey(call'.t) = key
    /\ ItemIds(groups', key) \cap ItemIds(groups, key) = {}
\* the step registered an item under a name of the group of key, in the place
\* of the item of that name
NamedItemOverwritten(key) ==
    /\ call'.op \in {"RegisterInstance", "RegisterDynamic"}
    /\ typeKey(call'.t) = key
    /\ LastName(call'.options) \in DOMAIN groups[key].namedItems
    /\ ItemIds(groups', key) =
            (ItemIds(groups, key) \ {groups[key].namedItems[LastName(call'.options)].id})
                \cup {nextId}
\* with a group, Resolve does not fail for want of an item of the type, and
\* ResolveAll returns a value when it succeeds
GroupResolves ==
    /\ (call'.op = "Resolve" /\ HasGroup(call'.t)) =>
            ret'.err # ErrNotExist(typeKey(call'.t))
    /\ (call'.op = "ResolveAll" /\ ret'.err = NoError) => Len(ret'.all) >= 1

\* C37, as stated: every group holds at least one item; a group is created
\* only by a registration, which adds an item to it, and an item leaves its
\* group only when RemoveAll deletes the whole group; Resolve on a type with a
\* group does not fail with ErrNotExist and a successful ResolveAll is not empty.
C37_ItemsLeaveOnlyByRemoveAll ==
    [][/\ NonEmpty(groups')
       /\ CreatedByRegistration
       /\ \A key \in DOMAIN groups :
                ~(ItemIds(groups, key) \subseteq ItemIds(groups', key)) =>
                    WholeGroupRemoved(key)
       /\ GroupResolves]_vars

\* C37, amended: every group holds at least one item; a group is created only
\* by a registration, which adds an item to it, and an item leaves its group
\* only when RemoveAll, alone or inside ReplaceInstance and ReplaceDynamic,
\* deletes the whole group, or when a registration under its name puts a new
\* item in its place; Resolve on a type with a group does not fail with
\* ErrNotExist for that type and a successful ResolveAll is not empty.
C37_GroupsAreNeverEmpty ==
    [][/\ NonEmpty(groups')
       /\ CreatedByRegistration
       /\ \A key \in DOMAIN groups :
                ~(ItemIds(groups, key) \subseteq ItemIds(groups', key)) =>
                    WholeGroupRemoved(key) \/ NamedItemOverwritten(key)
       /\ GroupResolves]_vars

\* the name a was registered twice and an anonymous item after it: the group
\* holds the second and third items, the first has left without RemoveAll
C37_Witness ==
    /\ call.op = "RegisterInstance" /\ call.options = <<>>
    /\ nextId = 4
    /\ ItemIds(groups, "T") = {2, 3}
    /\ DOMAIN NamedOf("T") = {"a"} /\ NamedOf("T")["a"].id = 2

\* the items of every group of gs
AllItems(gs) ==
    UNION {Range(gs[key].items) \cup Range(gs[key].namedItems) : key \in DOMAIN gs}

\* C38: a memoized value or error does not outlive its registration: after a
\* RemoveAll and a new registration, after a Replace, and after a registration
\* under a name already used, every value and error that a resolution on the
\* type returns comes from an item the group holds now; an item is registered
\* with nothing memoized, holds only what its own resolver returned, and its
\* resolver runs on the first resolution that gets to it.
C38_CacheDiesWithRegistration ==
    [][/\ \A item \in AllItems(groups') :
                /\ item.data # Nil => item.data.id = item.id
                /\ item.err # NoError => item.err.id = item.id
                /\ (item.data # Nil \/ item.err # NoError) => calls'[item.id] >= 1
       /\ (call'.op \in RegisterOps) =>
                \E item \in AllItems(groups') :
                    /\ item.id = nextId
                    /\ item.data = Nil /\ item.err = NoError
                    /\ calls'[item.id] = 0
       /\ (call'.op \in ResolveOps) =>
                /\ \A v \in ({ret'.data} \cup Range(ret'.all) \cup Range(ret'.m)) \ {Nil} :
                        v.id \in ItemIds(groups', typeKey(call'.t))
                /\ IsErr(ret'.err, "FactoryError") =>
                        ret'.err.id \in ItemIds(groups', typeKey(call'.t))
                /\ \A item \in Reached(groups, call'.op, call'.t, call'.name) :
                        (calls[item.id] = 0 /\ ret'.err = NoError) =>
                            calls'[item.id] = 1]_vars

\* the Static item named a had been resolved and memoized when the name was
\* registered again; ResolveByName ran the resolver of the new item and
\* returned its instance
C38_Witness ==
    /\ call.op = "ResolveByName" /\ call.name = "a" /\ HasGroup("T")
    /\ "a" \in DOMAIN NamedOf("T")
    /\ NamedOf("T")["a"].id = 2
    /\ NamedOf("T")["a"].option.lifetime = LifetimeStatic
    /\ NamedOf("T")["a"].data = Instance(2)
    /\ calls[1] = 1 /\ calls[2] = 1
    /\ ret.data = Instance(2) /\ ret.err = NoError

-----------------------------------------------------------------------------
(* Claims about partial resolution, checked under SpecPartial, where every *)
(* resolver returns a fresh non-nil object or fails.                       *)

\* the places that the operation visits in the group g, in order, when its
\* range over namedItems follows order
VisitedBy(op, g, order) ==
    IF op = "ResolveAll" THEN namedPlaces(order) \o itemPlaces(g) ELSE namedPlaces(order)

\* C39: when ResolveAll or ResolveMap fails at an item, the resolvers of the
\* items that come after it in the order of the call have not run and those
\* items are as they were; every item before it has succeeded: the resolver of
\* a PerRequest one has run once more, a Static one holds the object of its
\* only run; the resolver of a Static item never runs twice.
C39_FailureKeepsEarlierEffects ==
    [][/\ \A item \in AllItems(groups') :
                item.option.lifetime = LifetimeStatic => calls'[item.id] <= 1
       /\ (/\ call'.op \in {"ResolveAll", "ResolveMap"} /\ HasGroup(call'.t)
           /\ IsErr(ret'.err, "FactoryError")) =>
            LET g == groups[typeKey(call'.t)]
                h == groups'[typeKey(call'.t)]
            IN  \E order \in Orders(g.namedItems) :
                    LET places == VisitedBy(call'.op, g, order) IN
                    \E k \in DOMAIN places :
                        /\ ret'.err = FactoryError(itemAt(g, places[k]).id)
                        /\ calls'[itemAt(g, places[k]).id] =
                                IF itemAt(g, places[k]).err # NoError
                                THEN calls[itemAt(g, places[k]).id]
                                ELSE calls[itemAt(g, places[k]).id] + 1
                        /\ \A j \in 1..(k - 1) :
                                LET old == itemAt(g, places[j])
                                    new == itemAt(h, places[j])
                                IN  /\ Succeeds(old)
                                    /\ old.option.lifetime = LifetimePerRequest =>
                                            calls'[old.id] = calls[old.id] + 1 /\ new = old
                                    /\ old.option.lifetime = LifetimeStatic =>
                                            calls'[old.id] = 1 /\ new.data = Object(old.id, 1)
                        /\ \A j \in (k + 1)..Len(places) :
                                /\ calls'[itemAt(g, places[j]).id]
                                        = calls[itemAt(g, places[j]).id]
                                /\ itemAt(h, places[j]) = itemAt(g, places[j])
                        /\ \A place \in PlacesOf(g) \ Range(places) :
                                /\ calls'[itemAt(g, place).id] = calls[itemAt(g, place).id]
                                /\ itemAt(h, place) = itemAt(g, place)]_vars

\* the second ResolveAll over a Static item, a failing PerRequest item and a
\* third item has failed at the second: the first ran once in all, the
\* second once in each call, the third never
C39_Witness ==
    /\ call.op = "ResolveAll" /\ HasGroup("T")
    /\ DOMAIN NamedOf("T") = {} /\ Len(AnonymousOf("T")) = 3
    /\ AnonymousOf("T")[1].option.lifetime = LifetimeStatic
    /\ AnonymousOf("T")[1].data = Object(1, 1)
    /\ AnonymousOf("T")[2].option.lifetime = LifetimePerRequest
    /\ ~Succeeds(AnonymousOf("T")[2])
    /\ Succeeds(AnonymousOf("T")[3])
    /\ calls[1] = 1 /\ calls[2] = 2 /\ calls[3] = 0
    /\ ret.err = FactoryError(2) /\ ret.all = <<>>

====
